---- MODULE Spec2Model ----
(***************************************************************************)
(* A model of the agentic-ux-proto job pipeline: the in-memory JobStore,   *)
(* the enqueueJob pipeline with its collaborators (crawler, Lighthouse,    *)
(* Pa11y, competitor benchmark, Puppeteer journeys), the prioritize        *)
(* scoring function, and the run-history / triage index.                   *)
(*                                                                         *)
(* Conventions.                                                            *)
(*  - A JavaScript string is a sequence of one-character strings, so that  *)
(*    length and trim() are computed, not assumed.  Fixed labels (stage    *)
(*    names, rule ids, metric keys) stay TLA+ strings.                     *)
(*  - An optional value is a sequence of length 0 (undefined / null) or 1. *)
(*  - A promise's outcome is a record [ok |-> TRUE, value |-> v] or        *)
(*    [ok |-> FALSE, error |-> e]; an exception e is a record              *)
(*    [message |-> m, text |-> String(e)].                                 *)
(*  - cumulative-layout-shift values are in thousandths (0.25 is 250).     *)
(*  - Timestamps (createdAt, updatedAt, t, totalTime) are left out: no     *)
(*    modelled branch reads them, except the creation order, which is the  *)
(*    order of the job ids.                                                *)
(***************************************************************************)
EXTENDS Integers, Sequences, FiniteSets, TLC

\* ------------------------------------------------------------------ bounds
\* jobs analysed in a run of the pipeline with the full environment
MaxJobs == 1

\* jobs whose pipelines interleave
MaxConcurrent == 2

\* writes requested of the run-history / triage index
MaxWrites == 2

\* pages in a list given to prioritize
MaxPages == 2

\* pages in a list given to prioritize when titles are compared across pages
MaxTitlePages == 3

\* journeys in a list given to prioritize
MaxJourneys == 2

\* the largest maxDepth and maxPages given to crawlHttp
MaxCrawlDepth == 2

MaxCrawlPages == 3

\* ------------------------------------------------------- optional values
None == << >>

Some(v) == << v >>

IsDef(o) == o # << >>

Resolved(v) == [ok |-> TRUE, value |-> v]

Rejected(e) == [ok |-> FALSE, error |-> e]

\* ------------------------------------------------------------- strings
Chars(n, c) == [i \in 1..n |-> c]

SetMin(S) == CHOOSE x \in S : \A y \in S : x <= y

SetMax(S) == CHOOSE x \in S : \A y \in S : x >= y

\* a trim that is left out
TrimNothing(s) == s

\* String.prototype.trim on a sequence of characters
Trim(s) ==
  LET idx == {i \in 1..Len(s) : s[i] # " "}
  IN  IF idx = {} THEN << >> ELSE SubSeq(s, SetMin(idx), SetMax(idx))

\* JavaScript truthiness of an optional string: defined and not ''
Truthy(o) == IsDef(o) /\ o[1] # << >>

\* (o || '')
StrOr(o) == IF Truthy(o) THEN o[1] ELSE << >>

\* (a || b) on optional strings
OrElse(a, b) == IF Truthy(a) THEN a ELSE b

RECURSIVE Concat(_)
Concat(ss) == IF ss = << >> THEN << >> ELSE Head(ss) \o Concat(Tail(ss))

\* ----------------------------------------------------------- exceptions
InvalidUrlError == [message |-> "Invalid URL", text |-> "TypeError: Invalid URL"]

StepUndefinedError ==
  [message |-> "Cannot read properties of undefined (reading 'action')",
   text |-> "TypeError: Cannot read properties of undefined (reading 'action')"]

StoreWriteError == [message |-> "EROFS: read-only file system", text |-> "Error: EROFS: read-only file system"]

ToolError == [message |-> "tool failed", text |-> "Error: tool failed"]

\* e?.message || String(e)
errorMessage(e) == IF e.message # "" THEN e.message ELSE e.text

\* ---------------------------------------------------------- prioritize
PerfKeys == << "largest-contentful-paint", "interactive", "cumulative-layout-shift" >>

\* value > n in JavaScript, where value may be null (null > n is false for n >= 0)
Gt(v, n) == IsDef(v) /\ v[1] > n

\* thresholds compared with >= instead of >
severityFromPerfInclusive(metric, value) ==
  LET Ge(n) == IsDef(value) /\ value[1] >= n
  IN  IF metric = "largest-contentful-paint"
      THEN (IF Ge(4000) THEN 5 ELSE IF Ge(2500) THEN 4 ELSE 2)
      ELSE IF metric = "interactive"
      THEN (IF Ge(400) THEN 4 ELSE IF Ge(200) THEN 3 ELSE 2)
      ELSE IF metric = "cumulative-layout-shift"
      THEN (IF Ge(250) THEN 4 ELSE IF Ge(100) THEN 3 ELSE 1)
      ELSE 2

severityFromPerf(metric, value) ==
  IF metric = "largest-contentful-paint"
  THEN (IF Gt(value, 4000) THEN 5 ELSE IF Gt(value, 2500) THEN 4 ELSE 2)
  ELSE IF metric = "interactive"
  THEN (IF Gt(value, 400) THEN 4 ELSE IF Gt(value, 200) THEN 3 ELSE 2)
  ELSE IF metric = "cumulative-layout-shift"
  THEN (IF Gt(value, 250) THEN 4 ELSE IF Gt(value, 100) THEN 3 ELSE 1)
  ELSE 2

effortHeuristic(type) ==
  CASE type = "perf" -> 2
    [] type = "a11y" -> 2
    [] type = "flow" -> 3
    [] OTHER -> 2

\* an issue whose score leaves the effort out
mkIssueNoEffort(type, pageUrl, title, evidence, ruleId, wcag, metric, sev, impact, effort) ==
  [type |-> type, pageUrl |-> pageUrl, title |-> title, evidence |-> evidence,
   ruleId |-> ruleId, wcag |-> wcag, metric |-> metric,
   severity |-> sev, impact |-> impact, effort |-> effort,
   score |-> sev * impact]

mkIssue(type, pageUrl, title, evidence, ruleId, wcag, metric, sev, impact, effort) ==
  [type |-> type, pageUrl |-> pageUrl, title |-> title, evidence |-> evidence,
   ruleId |-> ruleId, wcag |-> wcag, metric |-> metric,
   severity |-> sev, impact |-> impact, effort |-> effort,
   score |-> sev * impact - effort]

perfTitle(key) ==
  IF key = "largest-contentful-paint" THEN "High LCP (slow hero)"
  ELSE IF key = "interactive" THEN "High INP (slow interactions)"
  ELSE "High CLS (layout shifts)"

perfImpact(key) ==
  IF key = "largest-contentful-paint" THEN 5 ELSE IF key = "interactive" THEN 4 ELSE 3

\* lines 36-69: the issues of one page's Lighthouse audits
perfIssuesOfPage(p) ==
  IF ~IsDef(p.lhr) THEN << >>
  ELSE LET audits == p.lhr[1].audits
           one(key) ==
             IF key \notin DOMAIN audits THEN << >>
             ELSE LET a == audits[key]
                      sev == severityFromPerf(key, a.numericValue)
                  IN  IF sev >= 3
                      THEN << mkIssue("perf", Some(p.url), << perfTitle(key) >>,
                                      << key, "=", a.numericValue >>, None, None,
                                      Some([name |-> key, value |-> a.numericValue]),
                                      sev, perfImpact(key), effortHeuristic("perf")) >>
                      ELSE << >>
       IN  one(PerfKeys[1]) \o one(PerfKeys[2]) \o one(PerfKeys[3])

\* lines 72-97: one issue per accessibility violation of the page
a11yIssuesOfPage(p) ==
  LET v == IF IsDef(p.axe) THEN p.axe[1].violations ELSE << >>
      one(viol) ==
        mkIssue("a11y", Some(p.url), << viol.id >>, << viol.description, " at ", viol.target >>,
                Some(viol.id), viol.wcag, None,
                IF viol.impact = "critical" THEN 5 ELSE IF viol.impact = "serious" THEN 4 ELSE 3,
                4, effortHeuristic("a11y"))
  IN  [k \in 1..Len(v) |-> one(v[k])]

\* lines 114-163: the per-page title / h1 / description checks
seoIssuesOfPage(p) ==
  LET title == Trim(StrOr(p.meta.title))
      h1 == Trim(StrOr(p.meta.h1))
      desc == Trim(StrOr(p.meta.description))
      seo(t, ev, sev, impact) ==
        << mkIssue("seo", Some(p.url), << t >>, ev, None, None, None, sev, impact, effortHeuristic("seo")) >>
  IN  (IF title = << >>
       THEN seo("Missing <title>", << "Page lacks a <title> tag" >>, 4, 3)
       ELSE (IF Len(title) < 15 THEN seo("Short title", << "Title length=", Len(title) >>, 3, 2) ELSE << >>)
            \o (IF Len(title) > 65 THEN seo("Long title", << "Title length=", Len(title) >>, 3, 2) ELSE << >>))
      \o (IF h1 = << >> THEN seo("Missing H1", << "No <h1> detected" >>, 3, 3) ELSE << >>)
      \o (IF desc = << >>
          THEN seo("Missing meta description", << "No meta description found" >>, 3, 2)
          ELSE IF Len(desc) > 180
          THEN seo("Long meta description", << "Meta description length=", Len(desc) >>, 2, 2)
          ELSE << >>)

\* lines 104-112: the insertion-ordered Map title -> urls, as the sequence of its
\* keys (first occurrence order) and the urls of a key (page order)
titleKeys(pages) ==
  LET t(k) == Trim(StrOr(pages[k].meta.title))
      first == {k \in 1..Len(pages) : t(k) # << >> /\ \A m \in 1..(k - 1) : t(m) # t(k)}
      RECURSIVE collect(_)
      collect(k) == IF k > Len(pages) THEN << >>
                    ELSE (IF k \in first THEN << t(k) >> ELSE << >>) \o collect(k + 1)
  IN  collect(1)

\* the urls of a title, comparing the titles as they are in the head
titleUrlsUntrimmed(pages, title) ==
  LET RECURSIVE collect(_)
      collect(k) == IF k > Len(pages) THEN << >>
                    ELSE (IF StrOr(pages[k].meta.title) = title
                          THEN << pages[k].url >> ELSE << >>) \o collect(k + 1)
  IN  collect(1)

titleUrls(pages, title) ==
  LET RECURSIVE collect(_)
      collect(k) == IF k > Len(pages) THEN << >>
                    ELSE (IF Trim(StrOr(pages[k].meta.title)) = title
                          THEN << pages[k].url >> ELSE << >>) \o collect(k + 1)
  IN  collect(1)

\* lines 166-175
duplicateTitleIssues(pages) ==
  LET keys == titleKeys(pages)
      ofTitle(title) ==
        LET urls == titleUrls(pages, title)
        IN  IF Len(urls) > 1
            THEN [k \in 1..Len(urls) |->
                    mkIssue("seo", Some(urls[k]), << "Duplicate title across pages" >>,
                            << "Title ", title, " appears on ", Len(urls), " pages" >>,
                            None, None, None, 3, 3, effortHeuristic("seo"))]
            ELSE << >>
  IN  Concat([k \in 1..Len(keys) |-> ofTitle(keys[k])])

\* line 180: j.steps[j.failedAt] (0-based) is undefined, so step.action throws
stepMissing(j) == IsDef(j.failedAt) /\ j.failedAt[1] + 1 > Len(j.steps)

\* lines 178-197
journeyIssues(journeys) ==
  LET one(j) ==
        IF IsDef(j.failedAt)
        THEN LET step == j.steps[j.failedAt[1] + 1]
             IN  << mkIssue("flow", None, << "Journey failure: ", j.name >>,
                            << "Failed at step #", j.failedAt[1] + 1, ": ", step.action,
                               " (", IF step.error # "" THEN step.error ELSE "unknown", ")" >>,
                            None, None, None, 5, 5, effortHeuristic("flow")) >>
        ELSE << >>
  IN  Concat([k \in 1..Len(journeys) |-> one(journeys[k])])

\* a descending sort that is not stable: equal scores come out in reverse
sortByScoreUnstable(s) ==
  LET rank(k) == 1 + Cardinality({j \in 1..Len(s) :
                      s[j].score > s[k].score \/ (s[j].score = s[k].score /\ j > k)})
  IN  [p \in 1..Len(s) |-> s[CHOOSE k \in 1..Len(s) : rank(k) = p]]

\* Array.prototype.sort with (a, b) => b.score - a.score: stable, descending.
\* The element at index k ends up behind every element with a greater score
\* and behind the earlier elements with an equal score.
sortByScore(s) ==
  LET rank(k) == 1 + Cardinality({j \in 1..Len(s) :
                      s[j].score > s[k].score \/ (s[j].score = s[k].score /\ j < k)})
  IN  [p \in 1..Len(s) |-> s[CHOOSE k \in 1..Len(s) : rank(k) = p]]

\* the issues in generation order, before the sort
generated(pages, journeys) ==
  Concat([k \in 1..Len(pages) |-> perfIssuesOfPage(pages[k])])
  \o Concat([k \in 1..Len(pages) |-> a11yIssuesOfPage(pages[k])])
  \o Concat([k \in 1..Len(pages) |-> seoIssuesOfPage(pages[k])])
  \o duplicateTitleIssues(pages)
  \o journeyIssues(journeys)

\* createId() gives each issue a fresh id: here its generation number
withIds(s) == [k \in 1..Len(s) |-> [f \in DOMAIN s[k] \cup {"id"} |-> IF f = "id" THEN k ELSE s[k][f]]]

\* prioritize(pages, journeys): the sorted issues, or the TypeError of line 189
\* (the issues array is bound once, then given ids and sorted)
prioritize(pages, journeys) ==
  IF \E k \in 1..Len(journeys) : stepMissing(journeys[k])
  THEN Rejected(StepUndefinedError)
  ELSE Resolved(CHOOSE sorted \in { sortByScore(withIds(issues)) : issues \in {generated(pages, journeys)} } : TRUE)

\* ------------------------------------------------------------ JobStore
\* createJob: the Job stored under a fresh id
newJob(id, url, options) ==
  [id |-> id, url |-> url, options |-> options, status |-> "queued", progress |-> 0,
   stage |-> "(undefined)", summary |-> None, outputs |-> None, error |-> "(undefined)"]

\* getJob: the job of the id, if any
getJob(js, id) == IF id \in DOMAIN js THEN Some(js[id]) ELSE None

\* { ...cur, ...patch }
spread(cur, patch) == [f \in DOMAIN cur |-> IF f \in DOMAIN patch THEN patch[f] ELSE cur[f]]

\* a store that applies the patch to every job it holds
updateJobAll(js, id, patch) ==
  IF id \notin DOMAIN js THEN js
  ELSE [k \in DOMAIN js |-> spread(js[k], patch)]

\* updateJob: the Map after the call
updateJob(js, id, patch) ==
  IF id \notin DOMAIN js THEN js
  ELSE [js EXCEPT ![id] = spread(js[id], patch)]

\* ------------------------------------------------------- collaborators
\* URLs that pass /^https?:\/\//i but that new URL() rejects
InvalidUrls == {"https://"}

SiteUrls == {"https://shop.test/"}

CompetitorUrls == {"https://rival.test/"}

\* new URL(u).origin of the URLs in use
originOf(u) ==
  CASE u = "https://shop.test/" -> "https://shop.test"
    [] u = "https://rival.test/" -> "https://rival.test"
    [] OTHER -> u

Str(n) == Chars(n, "a")

\* a page as crawlHttp pushes it (line 118): no lhr, no axe
crawledPage(url, title, description, h1) ==
  [url |-> url, links |-> {}, meta |-> [title |-> title, description |-> description, h1 |-> h1],
   lhr |-> None, axe |-> None]

\* what the HTTP crawl of a start URL can find: a page with its head, or a page whose
\* fetch failed (html null: title, description and h1 undefined)
CrawlResults(url) ==
  { << crawledPage(url, Some(Str(4)), Some(Str(6)), Some(Str(2))) >>,
    << crawledPage(url, None, None, None) >>,
    << crawledPage(url, Some(Str(4)), None, None) >>,
    << crawledPage(url, None, None, None), crawledPage("https://shop.test/about", None, None, None) >> }

\* runCrawler: import crawl.http.js, then crawlHttp, whose new URL(startUrl) throws
runCrawler(startUrl, maxDepth, site) ==
  IF startUrl \in InvalidUrls THEN Rejected(InvalidUrlError) ELSE Resolved(site)

\* what Lighthouse reports for a page
SlowLhr ==
  [audits |-> [k \in {PerfKeys[1], PerfKeys[2], PerfKeys[3]} |->
      [id |-> k, numericValue |-> IF k = "largest-contentful-paint" THEN Some(4200)
                                  ELSE IF k = "interactive" THEN Some(150) ELSE None]],
   categories |-> [performance |-> [score |-> None]]]

\* the environment of a tool call: the module cannot be imported, the tool throws
\* while running, or it works
ToolEnv == {"missing", "throw", "ok"}

\* runLighthouseCli: the first max(1, maxPages) pages get an lhr unless the run throws
runLighthouseCli(pages, maxPages, env) ==
  LET n == IF maxPages > 1 THEN maxPages ELSE 1
  IN  Resolved([k \in 1..Len(pages) |->
        IF k <= n /\ env = "ok" THEN [pages[k] EXCEPT !.lhr = Some(SlowLhr)] ELSE pages[k]])

\* runLighthouseAudit: the import is awaited inside the try; the promise of
\* runLighthouseCli is returned as it is
runLighthouseAudit(pages, env) ==
  IF env = "missing" THEN Resolved(pages) ELSE runLighthouseCli(pages, 3, env)

Pa11yViolations ==
  << [id |-> "WCAG2AA.Principle1.Guideline1_1.1_1_1.H37", impact |-> "serious",
      description |-> "Img element missing an alt attribute", target |-> "img.hero",
      wcag |-> Some("WCAG 1.1.1")] >>

\* runPa11y: no pa11y, nothing happens; a run that throws leaves { violations: [] }
runPa11y(pages, maxPages, env) ==
  LET n == IF maxPages > 1 THEN maxPages ELSE 1
  IN  IF env = "missing" THEN Resolved(pages)
      ELSE Resolved([k \in 1..Len(pages) |->
             IF k > n THEN pages[k]
             ELSE IF env = "ok" THEN [pages[k] EXCEPT !.axe = Some([violations |-> Pa11yViolations])]
             ELSE IF IsDef(pages[k].axe) THEN pages[k]
             ELSE [pages[k] EXCEPT !.axe = Some([violations |-> << >>])]])

runAxeAudit(pages, env) == runPa11y(pages, 3, env)

\* fetchMetaHead: {} when puppeteer is missing or the page cannot be rendered
fetchMetaHead(url, env) ==
  IF env = "ok"
  THEN Resolved([title |-> Some(Str(3)), h1 |-> Some(Str(2)), description |-> None])
  ELSE Resolved([title |-> None, h1 |-> None, description |-> None])

enrichMetaEveryPage(pages, m) ==
  [k \in 1..Len(pages) |->
     [pages[k] EXCEPT !.meta = [title |-> OrElse(@.title, m.title), h1 |-> OrElse(@.h1, m.h1),
                                description |-> OrElse(@.description, m.description)]]]

\* pipeline lines 21-33: the first page's meta after the browser-rendered fallback
enrichMeta(pages, m) ==
  [pages EXCEPT ![1].meta = [title |-> OrElse(@.title, m.title), h1 |-> OrElse(@.h1, m.h1),
                             description |-> OrElse(@.description, m.description)]]

needsMeta(pages) ==
  /\ Len(pages) > 0
  /\ ~Truthy(pages[1].meta.title) /\ ~Truthy(pages[1].meta.h1) /\ ~Truthy(pages[1].meta.description)

\* Array.from(new Set(urls)).slice(0, 3)
RECURSIVE uniq(_)
uniq(s) ==
  IF s = << >> THEN << >>
  ELSE LET r == uniq(SubSeq(s, 1, Len(s) - 1))
           x == s[Len(s)]
       IN  IF \E k \in 1..Len(r) : r[k] = x THEN r ELSE Append(r, x)

\* runBenchmarkTargets: each competitor is crawled and audited inside its own try
runBenchmarkTargets(urls, env) ==
  LET u3 == LET u == uniq(urls) IN SubSeq(u, 1, IF Len(u) < 3 THEN Len(u) ELSE 3)
      one(u) ==
        LET c == runCrawler(u, 0, << crawledPage(u, Some(Str(4)), None, None) >>)
        IN  IF u \in InvalidUrls \/ env = "throw" \/ ~c.ok
            THEN [url |-> u, origin |-> u, page |-> None]
            ELSE LET a == runLighthouseAudit(<< c.value[1] >>, env)
                     b == runAxeAudit(a.value, env)
                 IN  [url |-> u, origin |-> originOf(u), page |-> Some(b.value[1])]
  IN  Resolved([k \in 1..Len(u3) |-> one(u3[k])])

\* ------------------------------------------------------------- journeys
KnownActions == {"visit", "click", "type", "wait", "assertText", "assertVisible"}

defaultFlows ==
  << [name |-> "smoke: visit and check body",
      steps |-> << [action |-> "visit", selector |-> ""],
                   [action |-> "assertVisible", selector |-> "body"] >>] >>

\* a flows file whose first step is not one of the six actions
hoverFlows ==
  << [name |-> "checkout",
      steps |-> << [action |-> "hover", selector |-> "#menu"],
                   [action |-> "click", selector |-> "#buy"] >>] >>

FlowConfigs == {defaultFlows, hoverFlows}

\* lines 85-128: the steps recorded for a flow and its failedAt; `bad` is the set of
\* 0-based step indexes whose browser call throws
runFlow(flow, bad) ==
  LET RECURSIVE go(_, _)
      go(i, steps) ==
        IF i >= Len(flow.steps) THEN [steps |-> steps, failedAt |-> None]
        ELSE LET s == flow.steps[i + 1]
             IN  IF s.action \notin KnownActions THEN go(i + 1, steps)
                 ELSE IF i \in bad
                 THEN [steps |-> Append(steps, [action |-> << s.action >>, selector |-> s.selector,
                                                ok |-> FALSE, error |-> "step failed"]),
                       failedAt |-> Some(i)]
                 ELSE go(i + 1, Append(steps, [action |-> << s.action, s.selector >>,
                                               selector |-> s.selector, ok |-> TRUE, error |-> ""]))
      r == go(0, << >>)
  IN  [name |-> flow.name, steps |-> r.steps, failedAt |-> r.failedAt]

\* the browser a journey run meets: whether it launches, and which steps throw
JourneyEnvs ==
  { [launch |-> l, bad |-> b] : l \in {"missing", "throw", "ok"}, b \in {{}, {1}} }

\* runJourneysPuppeteer: no browser, no journeys; else one Journey per flow
runJourneysPuppeteer(baseUrl, jobId, flows, env) ==
  IF env.launch # "ok" THEN Resolved(<< >>)
  ELSE Resolved([k \in 1..Len(flows) |-> runFlow(flows[k], env.bad)])

\* runJourneysAgent: [] when the adapter cannot be imported; else the adapter's promise
runJourneysAgent(baseUrl, jobId, flows, env) ==
  IF env.launch = "missing" THEN Resolved(<< >>)
  ELSE runJourneysPuppeteer(baseUrl, jobId, flows, env)

\* buildStoryboardHtml: the report, here the data it renders
buildStoryboardHtml(job, pages, journeys, issues, benchTargets) ==
  [report |-> job.id, issues |-> Len(issues), pages |-> Len(pages)]

\* ------------------------------------------------- run history (index)
\* the RunMeta of a completed job
runMeta(job) ==
  [id |-> job.id, url |-> job.url, origin |-> originOf(job.url), status |-> job.status,
   issues |-> IF IsDef(job.outputs) THEN Len(job.outputs[1].issues) ELSE 0,
   pages |-> IF IsDef(job.outputs) THEN Len(job.outputs[1].pages) ELSE 0,
   journeys |-> IF IsDef(job.outputs) THEN Len(job.outputs[1].journeys) ELSE 0]

\* the runs without the run of the id, then the new run, by creation time descending
\* (jobs are created in the order of their ids)
RECURSIVE insertRun(_, _)
insertRun(runs, m) ==
  IF runs = << >> THEN << m >>
  ELSE IF Head(runs).id = m.id THEN insertRun(Tail(runs), m)
  ELSE IF Head(runs).id < m.id THEN << m >> \o [k \in 1..Len(runs) |-> runs[k]]
  ELSE << Head(runs) >> \o insertRun(Tail(runs), m)

\* recordRun, between its read and its write: the index read, with the run put in
recordRunPut(idx, job) == [idx EXCEPT !.runs = insertRun(@, runMeta(job))]

EmptyIndex == [runs |-> << >>, triage |-> << >>]

\* ------------------------------------------------------------- pipeline
runningPatch == [status |-> "running", progress |-> 1, stage |-> "crawl"]

crawledPatch == [progress |-> 25, stage |-> "perf"]

perfPatch == [progress |-> 45, stage |-> "a11y"]

\* the pipeline without a bench stage: after the accessibility audit, journeys
a11yPatchNoBench == [progress |-> 70, stage |-> "journeys"]

a11yPatch == [progress |-> 65, stage |-> "bench"]

benchPatch == [progress |-> 70, stage |-> "journeys"]

journeysPatch == [progress |-> 85, stage |-> "synthesis"]

\* a completion that forgets the outputs
donePatchNoOutputs(outputs, issues, pages, journeys) ==
  [status |-> "done", progress |-> 100, stage |-> "done",
   summary |-> Some(<< Len(issues), " issues across ", Len(pages), " pages; ",
                       Len(journeys), " journeys analyzed." >>)]

donePatch(outputs, issues, pages, journeys) ==
  [status |-> "done", progress |-> 100, stage |-> "done", outputs |-> Some(outputs),
   summary |-> Some(<< Len(issues), " issues across ", Len(pages), " pages; ",
                       Len(journeys), " journeys analyzed." >>)]

\* a catch that also resets the progress
errorPatchResetProgress(e) ==
  [status |-> "error", stage |-> "error", error |-> errorMessage(e), progress |-> 0]

\* a catch that keeps the stage label of the failing stage
errorPatchNoStage(e) == [status |-> "error", error |-> errorMessage(e)]

\* a catch that records the message but leaves the status
errorPatchNoStatus(e) == [stage |-> "error", error |-> errorMessage(e)]

\* the catch of line 82
errorPatch(e) == [status |-> "error", stage |-> "error", error |-> errorMessage(e)]

\* the outputs object of lines 58-64
mkOutputs(pages, issues, journeys, html, benchTargets) ==
  [pages |-> pages, issues |-> issues, journeys |-> journeys,
   artifacts |-> [reportHtml |-> html],
   bench |-> IF Len(benchTargets) > 0 THEN Some([targets |-> benchTargets]) ELSE None]

\* recordRun awaited inside the outer try without its own catch
afterRecordRunRethrow(js, id, r) ==
  IF r.ok THEN js ELSE updateJob(js, id, [status |-> "error", stage |-> "error", error |-> errorMessage(r.error)])

\* line 80: try { await recordRun(...) } catch {} leaves the job as it is
afterRecordRun(js, id, r) == js

\* lines 43-47: benchTargets after the awaited runBenchmarkTargets
benchResult(r) == IF r.ok THEN r.value ELSE << >>

VARIABLES
  jobs,    \* JobStore.jobs: job id -> Job
  pc,      \* per job: the await at which its pipeline callback is suspended
  loc,     \* per job: the callback's locals (pages, benchTargets, journeys, outputs)
  log,     \* per job: <<status, stage, progress>> after every updateJob call (history)
  calls,   \* per job: the collaborators invoked so far, in order (history)
  faults,  \* per job: the stages whose collaborator was missing or threw (history)
  index,   \* the persisted index: runs and triage
  snap,    \* per job: the index as recordRun read it
  ops,     \* the store writes requested over the API, with their read snapshots
  eval     \* a function under evaluation on its own: its arguments and, once applied, its result

vars == << jobs, pc, loc, log, calls, faults, index, snap, ops, eval >>

JobIds == DOMAIN jobs

EmptyLoc == [pages |-> << >>, benchTargets |-> << >>, journeys |-> << >>, outputs |-> None]

Init ==
  /\ jobs = << >>
  /\ pc = << >>
  /\ loc = << >>
  /\ log = << >>
  /\ calls = << >>
  /\ faults = << >>
  /\ index = EmptyIndex
  /\ snap = << >>
  /\ ops = << >>
  /\ eval = << >>

RECURSIVE after(_, _, _)
after(js, id, patches) ==
  IF patches = << >> THEN js ELSE after(updateJob(js, id, Head(patches)), id, Tail(patches))

RECURSIVE observed(_, _, _)
observed(js, id, patches) ==
  IF patches = << >> THEN << >>
  ELSE LET n == updateJob(js, id, Head(patches))
       IN  << << n[id].status, n[id].stage, n[id].progress >> >> \o observed(n, id, Tail(patches))

\* the updateJob calls of one synchronous stretch of the callback
Update(id, patches) ==
  /\ jobs' = after(jobs, id, patches)
  /\ log' = [log EXCEPT ![id] = @ \o observed(jobs, id, patches)]

Call(id, names) == calls' = [calls EXCEPT ![id] = @ \o names]

Fault(id, stage, env) ==
  faults' = [faults EXCEPT ![id] = IF env = "ok" THEN @ ELSE @ \cup {stage}]

\* an exception reaches the catch of line 81
Fail(id, e) ==
  /\ Update(id, << errorPatch(e) >>)
  /\ pc' = [pc EXCEPT ![id] = "end"]

\* an enqueueJob that runs the first stretch of the pipeline before it returns
AnalyzeInline(url, competitors) ==
  /\ jobs' = Append(jobs, spread(newJob(Len(jobs) + 1, url, [maxDepth |-> 2, competitors |-> competitors]),
                                 runningPatch))
  /\ pc' = Append(pc, "crawl")
  /\ loc' = Append(loc, EmptyLoc)
  /\ log' = Append(log, << << "running", "crawl", 1 >> >>)
  /\ calls' = Append(calls, << "runCrawler" >>)
  /\ faults' = Append(faults, {})
  /\ snap' = Append(snap, None)
  /\ UNCHANGED << index, ops, eval >>

\* POST /api/analyze (and GET /?url=): createJob, then enqueueJob, which only
\* schedules the callback with setImmediate
Analyze(url, competitors) ==
  /\ jobs' = Append(jobs, newJob(Len(jobs) + 1, url, [maxDepth |-> 2, competitors |-> competitors]))
  /\ pc' = Append(pc, "scheduled")
  /\ loc' = Append(loc, EmptyLoc)
  /\ log' = Append(log, << >>)
  /\ calls' = Append(calls, << >>)
  /\ faults' = Append(faults, {})
  /\ snap' = Append(snap, None)
  /\ UNCHANGED << index, ops, eval >>

\* lines 11-17: the callback starts and awaits the crawl
Start(id) ==
  /\ pc[id] = "scheduled"
  /\ IsDef(getJob(jobs, id))
  /\ Update(id, << runningPatch >>)
  /\ Call(id, << "runCrawler" >>)
  /\ pc' = [pc EXCEPT ![id] = "crawl"]
  /\ UNCHANGED << loc, faults, index, snap, ops, eval >>

\* lines 17-25: the crawl settles
CrawlSettled(id, site) ==
  /\ pc[id] = "crawl"
  /\ LET r == runCrawler(jobs[id].url, jobs[id].options.maxDepth, site)
     IN  IF ~r.ok
         THEN Fail(id, r.error) /\ UNCHANGED << loc, calls >>
         ELSE /\ Update(id, << crawledPatch >>)
              /\ loc' = [loc EXCEPT ![id].pages = r.value]
              /\ IF needsMeta(r.value)
                 THEN Call(id, << "fetchMetaHead" >>) /\ pc' = [pc EXCEPT ![id] = "meta"]
                 ELSE Call(id, << "runLighthouseAudit" >>) /\ pc' = [pc EXCEPT ![id] = "perf"]
  /\ UNCHANGED << faults, index, snap, ops, eval >>

\* lines 25-36: the browser-rendered meta settles (a failed import is caught)
MetaSettled(id, env) ==
  /\ pc[id] = "meta"
  /\ loc' = [loc EXCEPT ![id].pages =
               IF env = "missing" THEN @ ELSE enrichMeta(@, fetchMetaHead(@[1].url, env).value)]
  /\ Call(id, << "runLighthouseAudit" >>)
  /\ pc' = [pc EXCEPT ![id] = "perf"]
  /\ UNCHANGED << jobs, log, faults, index, snap, ops, eval >>

\* lines 36-38: the performance audit settles
PerfSettled(id, env) ==
  /\ pc[id] = "perf"
  /\ LET r == runLighthouseAudit(loc[id].pages, env)
     IN  IF ~r.ok
         THEN Fail(id, r.error) /\ UNCHANGED << loc, calls >>
         ELSE /\ loc' = [loc EXCEPT ![id].pages = r.value]
              /\ Update(id, << perfPatch >>)
              /\ Call(id, << "runAxeAudit" >>)
              /\ pc' = [pc EXCEPT ![id] = "a11y"]
  /\ Fault(id, "perf", env)
  /\ UNCHANGED << index, snap, ops, eval >>

\* lines 38-51: the accessibility audit settles; without competitors the bench
\* stage is passed in the same stretch
A11ySettled(id, env) ==
  /\ pc[id] = "a11y"
  /\ LET r == runAxeAudit(loc[id].pages, env)
     IN  IF ~r.ok
         THEN Fail(id, r.error) /\ UNCHANGED << loc, calls >>
         ELSE /\ loc' = [loc EXCEPT ![id].pages = r.value]
              /\ IF Len(jobs[id].options.competitors) > 0
                 THEN /\ Update(id, << a11yPatch >>)
                      /\ Call(id, << "runBenchmarkTargets" >>)
                      /\ pc' = [pc EXCEPT ![id] = "bench"]
                 ELSE /\ Update(id, << a11yPatch, benchPatch >>)
                      /\ Call(id, << "runJourneysAgent" >>)
                      /\ pc' = [pc EXCEPT ![id] = "journeys"]
  /\ Fault(id, "a11y", env)
  /\ UNCHANGED << index, snap, ops, eval >>

\* lines 45-51: the competitor benchmark settles
BenchSettled(id, env) ==
  /\ pc[id] = "bench"
  /\ loc' = [loc EXCEPT ![id].benchTargets =
               benchResult(runBenchmarkTargets(jobs[id].options.competitors, env))]
  /\ Update(id, << benchPatch >>)
  /\ Call(id, << "runJourneysAgent" >>)
  /\ pc' = [pc EXCEPT ![id] = "journeys"]
  /\ Fault(id, "bench", env)
  /\ UNCHANGED << index, snap, ops, eval >>

\* lines 51-67: the journeys settle; synthesis runs in the same stretch
JourneysSettled(id, flows, env) ==
  /\ pc[id] = "journeys"
  /\ LET r == runJourneysAgent(jobs[id].url, id, flows, env)
     IN  IF ~r.ok
         THEN Fail(id, r.error) /\ UNCHANGED << loc, calls >>
         ELSE LET pages == loc[id].pages
                  pr == prioritize(pages, r.value)
              IN  IF ~pr.ok
                  THEN /\ Update(id, << journeysPatch, errorPatch(pr.error) >>)
                       /\ loc' = [loc EXCEPT ![id].journeys = r.value]
                       /\ Call(id, << "prioritize" >>)
                       /\ pc' = [pc EXCEPT ![id] = "end"]
                  ELSE /\ Update(id, << journeysPatch >>)
                       /\ loc' = [loc EXCEPT ![id].journeys = r.value,
                                             ![id].outputs = Some(mkOutputs(pages, pr.value, r.value,
                                                 buildStoryboardHtml(jobs[id], pages, r.value, pr.value,
                                                                     loc[id].benchTargets),
                                                 loc[id].benchTargets))]
                       /\ Call(id, << "prioritize", "buildStoryboardHtml", "safeWriteText" >>)
                       /\ pc' = [pc EXCEPT ![id] = "write"]
  /\ Fault(id, "journeys", env.launch)
  /\ UNCHANGED << index, snap, ops, eval >>

\* a pipeline that persists the run before it marks the job done
WriteSettledRecordFirst(id) ==
  /\ pc[id] = "write"
  /\ Call(id, << "safeWriteText", "recordRun" >>)
  /\ pc' = [pc EXCEPT ![id] = "recordRead"]
  /\ UNCHANGED << jobs, log, loc, faults, index, snap, ops, eval >>

\* lines 67-80: the best-effort writes settle (safeWriteText never rejects); the job is
\* marked done and recordRun is called
WriteSettled(id) ==
  /\ pc[id] = "write"
  /\ LET o == loc[id].outputs[1]
     IN  Update(id, << donePatch(o, o.issues, o.pages, o.journeys) >>)
  /\ Call(id, << "safeWriteText", "recordRun" >>)
  /\ pc' = [pc EXCEPT ![id] = "recordRead"]
  /\ UNCHANGED << loc, faults, index, snap, ops, eval >>

\* recordRun reads the whole index
RecordRead(id) ==
  /\ pc[id] = "recordRead"
  /\ snap' = [snap EXCEPT ![id] = Some(index)]
  /\ pc' = [pc EXCEPT ![id] = "recordWrite"]
  /\ UNCHANGED << jobs, loc, log, calls, faults, index, ops, eval >>

\* recordRun writes the whole index back, or the write fails and recordRun rejects
RecordWrite(id, ok) ==
  /\ pc[id] = "recordWrite"
  /\ LET r == IF ok THEN Resolved(recordRunPut(snap[id][1], jobs[id])) ELSE Rejected(StoreWriteError)
     IN  /\ index' = IF r.ok THEN r.value ELSE index
         /\ jobs' = afterRecordRun(jobs, id, r)
         /\ log' = [log EXCEPT ![id] =
                      IF jobs'[id] = jobs[id] THEN @
                      ELSE Append(@, << jobs'[id].status, jobs'[id].stage, jobs'[id].progress >>)]
         /\ calls' = [calls EXCEPT ![id] = IF r.ok THEN @ ELSE Append(@, "recordRun rejected")]
  /\ pc' = [pc EXCEPT ![id] = "end"]
  /\ UNCHANGED << loc, faults, snap, ops, eval >>

Next ==
  \/ /\ Len(jobs) < MaxJobs
     /\ \E url \in SiteUrls \cup InvalidUrls, competitors \in {<< >>, << "https://rival.test/" >>} :
          Analyze(url, competitors)
  \/ \E id \in JobIds : Start(id)
  \/ \E id \in JobIds : \E site \in CrawlResults(jobs[id].url) : CrawlSettled(id, site)
  \/ \E id \in JobIds, env \in ToolEnv : MetaSettled(id, env)
  \/ \E id \in JobIds, env \in ToolEnv : PerfSettled(id, env)
  \/ \E id \in JobIds, env \in ToolEnv : A11ySettled(id, env)
  \/ \E id \in JobIds, env \in {"ok", "throw"} : BenchSettled(id, env)
  \/ \E id \in JobIds, flows \in FlowConfigs, env \in JourneyEnvs : JourneysSettled(id, flows, env)
  \/ \E id \in JobIds : WriteSettled(id)
  \/ \E id \in JobIds : RecordRead(id)
  \/ \E id \in JobIds, ok \in BOOLEAN : RecordWrite(id, ok)

Spec == Init /\ [][Next]_vars

\* the steps of one job's callback: each is taken once the awaited promise settles
JobNext(id) ==
  /\ id \in JobIds
  /\ \/ Start(id)
     \/ \E site \in CrawlResults(jobs[id].url) : CrawlSettled(id, site)
     \/ \E env \in ToolEnv : MetaSettled(id, env) \/ PerfSettled(id, env) \/ A11ySettled(id, env)
     \/ \E env \in {"ok", "throw"} : BenchSettled(id, env)
     \/ \E flows \in FlowConfigs, env \in JourneyEnvs : JourneysSettled(id, flows, env)
     \/ WriteSettled(id)
     \/ RecordRead(id)
     \/ \E ok \in BOOLEAN : RecordWrite(id, ok)

\* every collaborator call eventually returns or throws, and the event loop runs
\* every callback that is ready
FairSpec == Spec /\ \A id \in 1..MaxJobs : WF_vars(JobNext(id))

\* two or more pipelines interleaving at their awaits, with a smaller environment
NextConc ==
  \/ /\ Len(jobs) < MaxConcurrent
     /\ \E url \in SiteUrls \cup InvalidUrls : Analyze(url, << >>)
  \/ \E id \in JobIds : Start(id)
  \/ \E id \in JobIds :
       CrawlSettled(id, << crawledPage(jobs[id].url, Some(Str(4)), Some(Str(6)), Some(Str(2))) >>)
  \/ \E id \in JobIds, env \in {"ok", "throw"} : PerfSettled(id, env)
  \/ \E id \in JobIds : A11ySettled(id, "ok")
  \/ \E id \in JobIds, flows \in FlowConfigs : JourneysSettled(id, flows, [launch |-> "ok", bad |-> {1}])
  \/ \E id \in JobIds : WriteSettled(id)
  \/ \E id \in JobIds : RecordRead(id)
  \/ \E id \in JobIds : RecordWrite(id, TRUE)

SpecConc == Init /\ [][NextConc]_vars

\* ---------------------------------------------------------------------
\* Issue digests (synthesis/summary.ts).  Strings are sequences of
\* one-character strings here, because the code slices, lowercases and
\* joins them.
\* ---------------------------------------------------------------------

UpperChars == << "A", "B", "C", "D", "E", "F", "G", "H", "I", "J", "K", "L", "M",
                 "N", "O", "P", "Q", "R", "S", "T", "U", "V", "W", "X", "Y", "Z" >>

LowerChars == << "a", "b", "c", "d", "e", "f", "g", "h", "i", "j", "k", "l", "m",
                 "n", "o", "p", "q", "r", "s", "t", "u", "v", "w", "x", "y", "z" >>

\* String.prototype.toLowerCase
toLowerCase(s) ==
  [k \in 1..Len(s) |->
     IF \E n \in 1..Len(UpperChars) : UpperChars[n] = s[k]
     THEN LowerChars[CHOOSE n \in 1..Len(UpperChars) : UpperChars[n] = s[k]]
     ELSE s[k]]

\* String.prototype.slice(0, n)
sliceTo(s, n) == SubSeq(s, 1, IF Len(s) < n THEN Len(s) ELSE n)

\* Array.prototype.join
RECURSIVE join(_, _)
join(parts, sep) ==
  IF Len(parts) = 0 THEN << >>
  ELSE IF Len(parts) = 1 THEN parts[1]
  ELSE parts[1] \o sep \o join(Tail(parts), sep)

Scheme == << "h", "t", "t", "p", "s", ":", "/", "/" >>

\* new URL(u) succeeds: of the strings considered, those with the https
\* scheme and a host; a string without a scheme makes the constructor throw
parsesAsUrl(u) ==
  /\ Len(u) > Len(Scheme)
  /\ SubSeq(u, 1, Len(Scheme)) = Scheme
  /\ u[Len(Scheme) + 1] \notin {"/", "?", "#"}

\* the position of the first character of s, from position from on, that
\* lies in stops; Len(s) + 1 when there is none
firstOf(s, from, stops) ==
  IF \E k \in from..Len(s) : s[k] \in stops
  THEN SetMin({ k \in from..Len(s) : s[k] \in stops })
  ELSE Len(s) + 1

\* the href of new URL(u) once hash and search have been set to '':
\* scheme, lowercased host, and the path ("/" when the url has none)
hrefWithoutHashAndSearch(u) ==
  LET hostFrom == Len(Scheme) + 1
      hostEnd  == firstOf(u, hostFrom, {"/", "?", "#"})
      pathEnd  == firstOf(u, hostFrom, {"?", "#"})
      host     == SubSeq(u, hostFrom, hostEnd - 1)
      path     == SubSeq(u, hostEnd, pathEnd - 1)
  IN  Scheme \o toLowerCase(host) \o (IF path = << >> THEN << "/" >> ELSE path)

normUrlKeepSearch(u) ==
  IF u = << >> THEN << >>
  ELSE IF parsesAsUrl(u) THEN SubSeq(u, 1, firstOf(u, 1, {"#"}) - 1)
  ELSE u

normUrl(u) ==
  IF u = << >> THEN << >>
  ELSE IF parsesAsUrl(u) THEN hrefWithoutHashAndSearch(u)
  ELSE u

\* the first 16 hex digits of the SHA-1 of s, taken as free of collisions:
\* two hashes are equal exactly when the hashed strings are
hash(s) == [sha1 |-> s]

typeChars(t) ==
  CASE t = "a11y" -> << "a", "1", "1", "y" >>
    [] t = "perf" -> << "p", "e", "r", "f" >>
    [] t = "seo"  -> << "s", "e", "o" >>
    [] t = "flow" -> << "f", "l", "o", "w" >>

\* o || '' for an optional string
orEmpty(o) == IF IsDef(o) THEN o[1] ELSE << >>

issueDigestWithEvidence(i) ==
  LET page == normUrl(orEmpty(i.pageUrl))
      keyParts ==
        << typeChars(i.type), page >> \o
        (CASE i.type = "a11y" -> << orEmpty(i.ruleId), orEmpty(i.wcag) >>
           [] i.type = "perf" -> << IF IsDef(i.metric) THEN i.metric[1].name ELSE << >> >>
           [] i.type = "seo"  -> << sliceTo(toLowerCase(i.title), 48) >>
           [] i.type = "flow" -> << sliceTo(toLowerCase(i.title), 48) >>)
        \o << i.evidence >>
  IN  hash(join(keyParts, << "|" >>))

issueDigest(i) ==
  LET page == normUrl(orEmpty(i.pageUrl))
      keyParts ==
        << typeChars(i.type), page >> \o
        (CASE i.type = "a11y" -> << orEmpty(i.ruleId), orEmpty(i.wcag) >>
           [] i.type = "perf" -> << IF IsDef(i.metric) THEN i.metric[1].name ELSE << >> >>
           [] i.type = "seo"  -> << sliceTo(toLowerCase(i.title), 48) >>
           [] i.type = "flow" -> << sliceTo(toLowerCase(i.title), 48) >>)
  IN  hash(join(keyParts, << "|" >>))

\* --- issues whose digests are compared ---------------------------------

Host == << "s", ".", "t" >>

HostUpper == << "S", ".", "T" >>

\* page urls: absent, empty, with and without query and fragment, with an
\* uppercase host, without a path, with a "|" in the path, and a relative
\* reference (which new URL rejects)
PageUrlValues ==
  { None, Some(<< >>),
    Some(Scheme \o Host \o << "/", "p" >>),
    Some(Scheme \o Host \o << "/", "p", "?", "x" >>),
    Some(Scheme \o Host \o << "/", "p", "#", "f" >>),
    Some(Scheme \o Host \o << "/", "p", "?", "x", "#", "f" >>),
    Some(Scheme \o HostUpper \o << "/", "p" >>),
    Some(Scheme \o Host),
    Some(Scheme \o Host \o << "/" >>),
    Some(Scheme \o Host \o << "/", "q" >>),
    Some(Scheme \o Host \o << "/", "p", "|", "m" >>),
    Some(<< "/", "p", "?", "x" >>) }

\* a title of 49 characters
LongTitle == << "T" >> \o Chars(47, "a") \o << "x" >>

\* titles: LongTitle, one that differs from it in case only, one that
\* differs in the 49th character only, one that differs in the 48th, and short ones
DigestTitles ==
  { LongTitle,
    << "t" >> \o Chars(47, "a") \o << "x" >>,
    << "T" >> \o Chars(47, "a") \o << "y" >>,
    << "T" >> \o Chars(46, "a") \o << "b", "x" >>,
    << "m", "|", "h" >>, << "h" >>, << >> }

RuleIdValues == { None, Some(<< >>), Some(<< "r", "1" >>), Some(<< "r", "2" >>) }

WcagValues == { None, Some(<< "1", ".", "1" >>), Some(<< "2", ".", "4" >>) }

MetricValues ==
  { None,
    Some([name |-> << "L", "C", "P" >>, value |-> 4200]),
    Some([name |-> << "L", "C", "P" >>, value |-> 2600]),
    Some([name |-> << "C", "L", "S" >>, value |-> 300]) }

issueOf(type, title, ruleId, wcag, metric) ==
  [id |-> 1, type |-> type, pageUrl |-> Some(Scheme \o Host \o << "/", "p" >>),
   title |-> title, evidence |-> << "e", "1" >>, ruleId |-> ruleId, wcag |-> wcag,
   metric |-> metric, severity |-> 5, impact |-> 5, effort |-> 2, score |-> 23,
   fixSteps |-> << << "f", "1" >> >>]

BaseIssues ==
  { issueOf("perf", << "L", "C", "P" >>, None, None, Some([name |-> << "L", "C", "P" >>, value |-> 4200])),
    issueOf("a11y", << "r", "1" >>, Some(<< "r", "1" >>), Some(<< "1", ".", "1" >>), None),
    issueOf("seo", LongTitle, None, None, None),
    issueOf("seo", << "m", "|", "h" >>, None, None, None),
    [issueOf("flow", LongTitle, None, None, None) EXCEPT !.pageUrl = None] }

\* ---------------------------------------------------- the index, written
\* over the API and by recordRun: read whole, change in memory, write whole
NoTriage == [state |-> None, owner |-> None, estimateHours |-> None, notes |-> None]

triageOf(idx, d) == IF d \in DOMAIN idx.triage THEN idx.triage[d] ELSE NoTriage

putTriage(idx, d, t) ==
  [idx EXCEPT !.triage = [x \in DOMAIN idx.triage \cup {d} |-> IF x = d THEN t ELSE idx.triage[x]]]

\* setTriage(digest, state | null)
setTriage(idx, d, state) == putTriage(idx, d, [triageOf(idx, d) EXCEPT !.state = state])

\* setTriageMeta(digest, partial): the fields of partial overwrite
setTriageMeta(idx, d, partial) ==
  putTriage(idx, d, [f \in DOMAIN NoTriage |->
                       IF f \in DOMAIN partial THEN partial[f] ELSE triageOf(idx, d)[f]])

\* digestsForIssues: the digests of the issues, each once, in first-occurrence order
digestsForIssues(issues) == uniq([k \in 1..Len(issues) |-> issueDigest(issues[k])])

\* the issue lists of the recorded jobs: x and y; y, z and y again with other evidence
StoredIssueLists ==
  LET x == issueOf("perf", << "L", "C", "P" >>, None, None, Some([name |-> << "L", "C", "P" >>, value |-> 4200]))
      y == issueOf("a11y", << "r", "1" >>, Some(<< "r", "1" >>), Some(<< "1", ".", "1" >>), None)
      z == issueOf("seo", LongTitle, None, None, None)
  IN  { << x, y >>, << y, z, [y EXCEPT !.evidence = << "e", "2" >>, !.id = 3] >> }

\* the digests triage is set for: one of an issue in both lists, one of an issue in the first only
Digests ==
  LET first == CHOOSE l \in StoredIssueLists : Len(l) = 2
  IN  { issueDigest(first[k]) : k \in 1..2 }

TriagePartials == { [owner |-> Some("ana")], [state |-> Some("planned"), notes |-> Some("later")] }

\* a job as the pipeline leaves it when it is done
doneJob(id) ==
  LET url == "https://shop.test/"
      pages == runAxeAudit(runLighthouseAudit(
                 << crawledPage(url, Some(Str(4)), Some(Str(6)), Some(Str(2))) >>, "ok").value, "ok").value
      issues == prioritize(pages, << >>).value
      j == newJob(id, url, [maxDepth |-> 2, competitors |-> << >>])
  IN  spread(spread(j, runningPatch),
             donePatch(mkOutputs(pages, issues, << >>, buildStoryboardHtml(j, pages, << >>, issues, << >>), << >>),
                       issues, pages, << >>))

\* a done job with the given issues
storedJob(id, issues) == [doneJob(id) EXCEPT !.outputs = Some([@[1] EXCEPT !.issues = issues])]

\* recordRun(job): the RunMeta of the job with the digests of its issues replaces
\* the run of the same id or is added, newest first
recordRun(idx, job) ==
  [idx EXCEPT !.runs = insertRun(@, runMeta(job) @@ [digests |-> digestsForIssues(job.outputs[1].issues)])]

diffRunsSwapped(idx, a, b) ==
  LET find(id) == IF \E k \in 1..Len(idx.runs) : idx.runs[k].id = id
                  THEN Some(idx.runs[CHOOSE k \in 1..Len(idx.runs) : idx.runs[k].id = id])
                  ELSE None
      ra == find(a)
      rb == find(b)
      da == IF IsDef(ra) /\ IsDef(rb) THEN ra[1].digests ELSE << >>
      db == IF IsDef(ra) /\ IsDef(rb) THEN rb[1].digests ELSE << >>
      keep(s, other, member) == SelectSeq(s, LAMBDA d : (\E k \in 1..Len(other) : other[k] = d) = member)
  IN  [a |-> ra, b |-> rb,
       added |-> keep(da, db, FALSE), removed |-> keep(db, da, FALSE), unchanged |-> keep(da, db, TRUE)]

diffRunsUnknownAsEmpty(idx, a, b) ==
  LET find(id) == IF \E k \in 1..Len(idx.runs) : idx.runs[k].id = id
                  THEN Some(idx.runs[CHOOSE k \in 1..Len(idx.runs) : idx.runs[k].id = id])
                  ELSE None
      ra == find(a)
      rb == find(b)
      da == IF IsDef(ra) THEN ra[1].digests ELSE << >>
      db == IF IsDef(rb) THEN rb[1].digests ELSE << >>
      keep(s, other, member) == SelectSeq(s, LAMBDA d : (\E k \in 1..Len(other) : other[k] = d) = member)
  IN  [a |-> ra, b |-> rb,
       added |-> keep(db, da, FALSE), removed |-> keep(da, db, FALSE), unchanged |-> keep(da, db, TRUE)]

\* diffRuns(idA, idB): the two runs as far as they are known; the digests of
\* B not in A, the digests of A not in B and the digests in both, or three
\* empty lists when one of the runs is unknown
diffRuns(idx, a, b) ==
  LET find(id) == IF \E k \in 1..Len(idx.runs) : idx.runs[k].id = id
                  THEN Some(idx.runs[CHOOSE k \in 1..Len(idx.runs) : idx.runs[k].id = id])
                  ELSE None
      ra == find(a)
      rb == find(b)
      da == IF IsDef(ra) /\ IsDef(rb) THEN ra[1].digests ELSE << >>
      db == IF IsDef(ra) /\ IsDef(rb) THEN rb[1].digests ELSE << >>
      keep(s, other, member) == SelectSeq(s, LAMBDA d : (\E k \in 1..Len(other) : other[k] = d) = member)
  IN  [a |-> ra, b |-> rb,
       added |-> keep(db, da, FALSE), removed |-> keep(da, db, FALSE), unchanged |-> keep(da, db, TRUE)]

StoreRequests ==
  { [kind |-> "recordRun", job |-> storedJob(id, issues)] : id \in 1..2, issues \in StoredIssueLists }
  \cup { [kind |-> "setTriage", digest |-> d, state |-> st] : d \in Digests, st \in {None, Some("accepted")} }
  \cup { [kind |-> "setTriageMeta", digest |-> d, partial |-> p] : d \in Digests, p \in TriagePartials }

\* what a write makes of the index it read
applyWrite(idx, req) ==
  CASE req.kind = "recordRun" -> recordRun(idx, req.job)
    [] req.kind = "setTriage" -> setTriage(idx, req.digest, req.state)
    [] req.kind = "setTriageMeta" -> setTriageMeta(idx, req.digest, req.partial)

\* a caller invokes a write; the write starts by reading the index
StoreBegin(req) ==
  /\ ops' = Append(ops, [req |-> req, phase |-> "read", snap |-> None, doneAt |-> 0])
  /\ UNCHANGED << jobs, pc, loc, log, calls, faults, index, snap, eval >>

StoreRead(k) ==
  /\ ops[k].phase = "read"
  /\ ops' = [ops EXCEPT ![k].phase = "write", ![k].snap = Some(index)]
  /\ UNCHANGED << jobs, pc, loc, log, calls, faults, index, snap, eval >>

StoreWrite(k) ==
  /\ ops[k].phase = "write"
  /\ index' = applyWrite(ops[k].snap[1], ops[k].req)
  /\ ops' = [ops EXCEPT ![k].phase = "done", ![k].snap = None,
                         ![k].doneAt = 1 + Cardinality({m \in DOMAIN ops : ops[m].phase = "done"})]
  /\ UNCHANGED << jobs, pc, loc, log, calls, faults, snap, eval >>

\* GET /api/diff/:a/:b: diffRuns reads the index and answers (one request is followed)
StoreDiff(a, b) ==
  /\ eval = << >>
  /\ eval' = [fn |-> "diffRuns", a |-> a, b |-> b, idx |-> index, out |-> diffRuns(index, a, b)]
  /\ UNCHANGED << jobs, pc, loc, log, calls, faults, index, snap, ops >>

NextStore ==
  \/ /\ Len(ops) < MaxWrites
     /\ \E req \in StoreRequests : StoreBegin(req)
  \/ \E k \in DOMAIN ops : StoreRead(k)
  \/ \E k \in DOMAIN ops : StoreWrite(k)
  \/ \E a \in 1..3, b \in 1..3 : StoreDiff(a, b)

SpecStore == Init /\ [][NextStore]_vars

\* ------------------------------------------------------------ properties
Terminal(id) == jobs[id].status \in {"done", "error"}

StatusSteps == { << "queued", "running" >>, << "running", "done" >>, << "running", "error" >> }

StatusStepOk(a, b) == a = b \/ << a, b >> \in StatusSteps

\* the statuses a job's updateJob calls left in the store, after "queued"
statusTrail(id) == << "queued" >> \o [k \in 1..Len(log[id]) |-> log[id][k][1]]

progressTrail(id) == << 0 >> \o [k \in 1..Len(log[id]) |-> log[id][k][3]]

stageTrail(id) == [k \in 1..Len(log[id]) |-> << log[id][k][2], log[id][k][3] >>]

Has(seq, x) == \E k \in 1..Len(seq) : seq[k] = x

\* C1: a job's status only moves queued -> running, running -> done or
\* running -> error; done and error are never left again, by no step of the
\* pipeline, the recordRun call after completion included. Checked on every
\* step of the store and on every updateJob call inside a step.
C1_StatusTransitions ==
  [][\A id \in DOMAIN jobs :
       /\ StatusStepOk(jobs[id].status, jobs'[id].status)
       /\ \A k \in 1..Len(log'[id]) : StatusStepOk(statusTrail(id)'[k], statusTrail(id)'[k + 1])]_vars

\* C1's case: a job went queued -> running -> done and recordRun has finished
C1_Witness ==
  \E id \in DOMAIN jobs :
    /\ pc[id] = "end"
    /\ statusTrail(id)[1] = "queued" /\ statusTrail(id)[2] = "running"
    /\ jobs[id].status = "done"

\* C2: the progress values a job shows in the JobStore never decrease, on the
\* success path and on every failure path (a failed job keeps its last
\* value), and always lie within 0..100.
C2_ProgressMonotone ==
  /\ [](\A id \in DOMAIN jobs :
          /\ jobs[id].progress \in 0..100
          /\ \A k \in 1..Len(log[id]) :
               progressTrail(id)[k + 1] \in 0..100 /\ progressTrail(id)[k] <= progressTrail(id)[k + 1])
  /\ [][\A id \in DOMAIN jobs : jobs[id].progress <= jobs'[id].progress]_vars

\* C2's case: a job failed late and still shows the progress of its last stage
C2_Witness ==
  \E id \in DOMAIN jobs : jobs[id].status = "error" /\ jobs[id].progress = 85 /\ Len(log[id]) > 1

StageOrder ==
  << << "crawl", 1 >>, << "perf", 25 >>, << "a11y", 45 >>, << "bench", 65 >>,
     << "journeys", 70 >>, << "synthesis", 85 >>, << "done", 100 >> >>

noLhr(pages) == \A k \in 1..Len(pages) : ~IsDef(pages[k].lhr)

noAxe(pages) == \A k \in 1..Len(pages) : ~IsDef(pages[k].axe) \/ pages[k].axe[1].violations = << >>

\* C4: when the performance auditor, the accessibility checker, the journey
\* runner or the competitor benchmark is missing or throws, its stage yields
\* an empty result, the progress advances to the next checkpoint, and the job
\* ends in status done, never in status error.
C4_OptionalFailureIsolated ==
  \A id \in DOMAIN jobs :
    /\ "perf" \in faults[id] => noLhr(loc[id].pages) /\ jobs[id].progress >= 45
    /\ "a11y" \in faults[id] => noAxe(loc[id].pages) /\ jobs[id].progress >= 65
    /\ "bench" \in faults[id] =>
         /\ \A k \in 1..Len(loc[id].benchTargets) : ~IsDef(loc[id].benchTargets[k].page)
         /\ jobs[id].progress >= 70
    /\ "journeys" \in faults[id] => loc[id].journeys = << >> /\ jobs[id].progress >= 85
    /\ faults[id] # {} =>
         /\ jobs[id].status # "error"
         /\ pc[id] = "end" => jobs[id].status = "done"

\* C5: an exception escaping a stage (the crawl in particular) takes the job
\* directly from running to status error with stage 'error' and a non-empty
\* message, and the job runs no later stage: no further collaborator call,
\* no scoring, no recordRun.
C5_ErrorStopsPipeline ==
  /\ [](\A id \in DOMAIN jobs : jobs[id].status = "error" =>
          /\ jobs[id].stage = "error"
          /\ jobs[id].error \notin {"", "(undefined)"}
          /\ pc[id] = "end"
          /\ statusTrail(id)[Len(statusTrail(id)) - 1] = "running"
          /\ ~Has(calls[id], "recordRun")
          /\ calls[id][Len(calls[id])] \in {"runCrawler", "prioritize"}
          /\ jobs[id].progress = 1 => calls[id] = << "runCrawler" >>)
  /\ [][\A id \in DOMAIN jobs : jobs[id].status = "error" =>
          /\ jobs'[id] = jobs[id]
          /\ calls'[id] = calls[id]
          /\ loc'[id] = loc[id]]_vars

\* C5's case: the crawl threw
C5_Witness ==
  \E id \in DOMAIN jobs : jobs[id].status = "error" /\ jobs[id].progress = 1 /\ pc[id] = "end"

\* C6: a job that ends in status error after at least one completed stage
\* keeps the evidence of the completed stages (the crawled pages) readable
\* on the job, and no issues are derived from it.
C6_EvidencePreserved ==
  \A id \in DOMAIN jobs :
    jobs[id].status = "error" /\ jobs[id].progress >= 25 =>
      /\ IsDef(jobs[id].outputs)
      /\ jobs[id].outputs[1].pages = loc[id].pages
      /\ jobs[id].outputs[1].issues = << >>

\* C7: a rejected recordRun after the job was marked done leaves the job as
\* it was: status done, progress 100, outputs attached, no error message.
C7_RecordRunFailureHarmless ==
  \A id \in DOMAIN jobs :
    Has(calls[id], "recordRun rejected") =>
      /\ jobs[id].status = "done"
      /\ jobs[id].progress = 100
      /\ jobs[id].stage = "done"
      /\ jobs[id].outputs = loc[id].outputs /\ IsDef(jobs[id].outputs)
      /\ jobs[id].error = "(undefined)"

\* C7's case: recordRun rejected and the callback has returned
C7_Witness ==
  \E id \in DOMAIN jobs : Has(calls[id], "recordRun rejected") /\ pc[id] = "end"

Perms(S) == { f \in [1..Cardinality(S) -> S] : \A x \in S : \E i \in DOMAIN f : f[i] = x }

RECURSIVE applyAll(_, _)
applyAll(idx, reqs) ==
  IF reqs = << >> THEN idx ELSE applyAll(applyWrite(idx, Head(reqs)), Tail(reqs))

completedWrites == { k \in DOMAIN ops : ops[k].phase = "done" }

\* the indexes that the completed writes give when applied one after another
serialOutcomes ==
  { applyAll(EmptyIndex, [i \in DOMAIN f |-> ops[f[i]].req]) : f \in Perms(completedWrites) }

\* C8: for any interleaving of concurrent recordRun, setTriage and
\* setTriageMeta writes, the index contains the effect of every write that
\* has completed: it is what the completed writes give one after another.
C8_NoLostUpdates == index \in serialOutcomes

\* what the job is left as when it runs alone, from the results its own
\* collaborators gave it
soloFinal(id) ==
  LET j == spread(newJob(id, jobs[id].url, jobs[id].options), runningPatch)
      pr == prioritize(loc[id].pages, loc[id].journeys)
  IN  IF loc[id].pages = << >>
      THEN spread(j, [status |-> "error", stage |-> "error", error |-> InvalidUrlError.message])
      ELSE IF ~pr.ok
      THEN spread(j, [status |-> "error", stage |-> "error", progress |-> 85,
                      error |-> StepUndefinedError.message])
      ELSE spread(j, donePatch(mkOutputs(loc[id].pages, pr.value, loc[id].journeys,
                                         buildStoryboardHtml(j, loc[id].pages, loc[id].journeys, pr.value,
                                                             loc[id].benchTargets),
                                         loc[id].benchTargets),
                               pr.value, loc[id].pages, loc[id].journeys))

\* C9: jobs are independent: a step of one job's pipeline leaves every other
\* job's status, stage, progress, error and outputs (its whole record and
\* its locals) as they were, and a finished job is what it would be had it
\* run alone with the same collaborator results.
C9_JobsIndependent ==
  /\ [](\A id \in DOMAIN jobs : pc[id] = "end" => jobs[id] = soloFinal(id))
  /\ [][\A b \in DOMAIN jobs : pc'[b] = pc[b] =>
          jobs'[b] = jobs[b] /\ loc'[b] = loc[b] /\ log'[b] = log[b]]_vars

\* C9's case: one job finished while another was suspended in mid-pipeline
C9_Witness ==
  \E a, b \in DOMAIN jobs :
    /\ a # b
    /\ pc[a] = "end" /\ jobs[a].status = "done"
    /\ pc[b] \in {"perf", "a11y", "journeys"} /\ jobs[b].status = "running"

\* C10: under fair scheduling, with every collaborator call settling, every
\* enqueued job eventually has status done or error; no job returns to
\* queued.
C10_EventuallyTerminal ==
  /\ \A id \in 1..MaxJobs : [](id \in DOMAIN jobs => <>(id \in DOMAIN jobs /\ Terminal(id)))
  /\ [][\A id \in DOMAIN jobs : jobs[id].status # "queued" => jobs'[id].status # "queued"]_vars

\* C10's case: a job is terminal although one of its stages was skipped
C10_Witness ==
  \E id \in DOMAIN jobs : Terminal(id) /\ pc[id] = "end" /\ faults[id] # {}

\* C11: enqueueJob returns before any pipeline step runs: when it returns
\* the job is queued with progress 0 and no collaborator has been invoked;
\* the job becomes running only in a later step, the scheduled callback.
C11_EnqueueReturnsFirst ==
  /\ [](\A id \in DOMAIN jobs : pc[id] = "scheduled" =>
          /\ jobs[id].status = "queued" /\ jobs[id].progress = 0
          /\ calls[id] = << >> /\ log[id] = << >>)
  /\ [][\A id \in DOMAIN jobs' :
          IF id \notin DOMAIN jobs
          THEN /\ jobs'[id].status = "queued" /\ jobs'[id].progress = 0
               /\ calls'[id] = << >> /\ pc'[id] = "scheduled"
          ELSE jobs[id].status = "queued" /\ jobs'[id].status # "queued" =>
                 /\ pc[id] = "scheduled" /\ pc'[id] = "crawl"
                 /\ jobs'[id].status = "running"]_vars

\* C11's case: enqueueJob has returned and the callback has not run yet
C11_Witness ==
  \E id \in DOMAIN jobs : pc[id] = "scheduled" /\ jobs[id].status = "queued" /\ index = EmptyIndex

hasRun(idx, id) == \E k \in 1..Len(idx.runs) : idx.runs[k].id = id

\* C12: a RunMeta is recorded only for a job that is done, at most once per
\* job execution, and only after the done state (status, progress 100,
\* outputs) is in the JobStore; a job that ends in error has no RunMeta.
C12_RunMetaOnlyWhenDone ==
  /\ [](\A id \in DOMAIN jobs :
          /\ hasRun(index, id) \/ Has(calls[id], "recordRun") =>
               jobs[id].status = "done" /\ jobs[id].progress = 100 /\ IsDef(jobs[id].outputs)
          /\ Cardinality({k \in 1..Len(calls[id]) : calls[id][k] = "recordRun"}) <= 1
          /\ Cardinality({k \in 1..Len(index.runs) : index.runs[k].id = id}) <= 1
          /\ \A k \in 1..Len(index.runs) : index.runs[k].id = id => index.runs[k].status = "done"
          /\ jobs[id].status = "error" => ~hasRun(index, id) /\ ~Has(calls[id], "recordRun"))
  /\ [][index'.runs # index.runs =>
          \E id \in DOMAIN jobs :
            /\ pc[id] = "recordWrite" /\ jobs[id].status = "done"
            /\ ~hasRun(index, id) /\ hasRun(index', id)]_vars

\* C12's case: the RunMeta of a done job is in the index
C12_Witness ==
  \E id \in DOMAIN jobs : hasRun(index, id) /\ pc[id] = "end" /\ jobs[id].status = "done"

\* ------------------------------------------- prioritize, evaluated alone
\* the k-th page of a crawl: every page has its own url
pageAt(k, c) == [url |-> << "https://shop.test/p", k >>, links |-> {}, meta |-> c.meta, lhr |-> c.lhr, axe |-> c.axe]

\* the page lists of at most n pages with contents from C
PageLists(C, n) == UNION { { [k \in 1..m |-> pageAt(k, f[k])] : f \in [1..m -> C] } : m \in 0..n }

SeqsUpTo(S, n) == UNION { [1..m -> S] : m \in 0..n }

audit(key, v) == [id |-> key, numericValue |-> v]

lhrOf(audits) == Some([audits |-> audits, categories |-> [performance |-> [score |-> None]]])

GoodMeta == [title |-> Some(Str(20)), description |-> Some(Str(140)), h1 |-> Some(Str(2))]

\* numericValue of each audit: null, and values at and around the thresholds
\* of severityFromPerf (cumulative-layout-shift in thousandths)
PerfValues(key) ==
  CASE key = "largest-contentful-paint" -> {None, Some(1800), Some(2500), Some(2501), Some(4000), Some(4001), Some(4200)}
    [] key = "interactive" -> {None, Some(200), Some(201), Some(400), Some(401)}
    [] key = "cumulative-layout-shift" -> {None, Some(100), Some(101), Some(250), Some(251)}

\* page contents that differ in their Lighthouse result: no lhr, one audit
\* only, or all three audits
PerfContents ==
  { [meta |-> GoodMeta, lhr |-> None, axe |-> None] }
  \cup { [meta |-> GoodMeta, lhr |-> lhrOf(key :> audit(key, v)), axe |-> None] :
           key \in {"largest-contentful-paint"}, v \in PerfValues("largest-contentful-paint") }
  \cup { [meta |-> GoodMeta, lhr |-> lhrOf(key :> audit(key, v)), axe |-> None] :
           key \in {"interactive"}, v \in PerfValues("interactive") }
  \cup { [meta |-> GoodMeta, lhr |-> lhrOf(key :> audit(key, v)), axe |-> None] :
           key \in {"cumulative-layout-shift"}, v \in PerfValues("cumulative-layout-shift") }
  \cup { [meta |-> GoodMeta,
          lhr |-> lhrOf([key \in {PerfKeys[1], PerfKeys[2], PerfKeys[3]} |-> audit(key, v[key])]),
          axe |-> None] :
           v \in { [key \in {PerfKeys[1], PerfKeys[2], PerfKeys[3]} |-> x] : x \in {Some(4001)} }
                 \cup { [key \in {PerfKeys[1], PerfKeys[2], PerfKeys[3]} |-> x] : x \in {Some(150)} } }

\* titles, h1s and descriptions: undefined, '', blank, and lengths at and
\* around the limits of the checks
TitleValues == {None, Some(<< >>), Some(Chars(3, " ")), Some(Str(14)), Some(Str(15)), Some(Str(20)),
                Some(Str(65)), Some(Str(66)), Some(<< " " >> \o Str(15) \o << " " >>)}

H1Values == {None, Some(Chars(2, " ")), Some(Str(2))}

DescValues == {None, Some(<< >>), Some(Str(140)), Some(Str(180)), Some(Str(181))}

FastLhr == lhrOf("largest-contentful-paint" :> audit("largest-contentful-paint", Some(1800)))

\* page contents that differ in one of title, h1 and description, or in all
SeoContents ==
  { [meta |-> [GoodMeta EXCEPT !.title = t], lhr |-> None, axe |-> None] : t \in TitleValues }
  \cup { [meta |-> [GoodMeta EXCEPT !.h1 = h], lhr |-> None, axe |-> None] : h \in H1Values }
  \cup { [meta |-> [GoodMeta EXCEPT !.description = d], lhr |-> None, axe |-> None] : d \in DescValues }
  \cup { [meta |-> [title |-> None, description |-> None, h1 |-> None], lhr |-> None, axe |-> None],
         [meta |-> GoodMeta, lhr |-> FastLhr, axe |-> None] }

\* page contents that differ in their title only: two titles, one of them also
\* with a leading blank, and no title
SharedTitleValues == {None, Some(Chars(2, " ")), Some(Str(20)), Some(<< " " >> \o Str(20)), Some(Chars(20, "b"))}

TitleContents == { [meta |-> [GoodMeta EXCEPT !.title = t], lhr |-> None, axe |-> None] : t \in SharedTitleValues }

\* a step as runJourneysPuppeteer records it
okStep(action) == [action |-> << action >>, selector |-> "", ok |-> TRUE, error |-> ""]

failedStep(action, error) == [action |-> << action >>, selector |-> "#buy", ok |-> FALSE, error |-> error]

\* journeys: passed; failed at the first or the second step, with or without
\* a message; and the journey of a flow with an unknown first action, whose
\* failedAt is beyond its recorded steps
JourneyValues ==
  { [name |-> "smoke", steps |-> << okStep("visit"), okStep("assertVisible") >>, failedAt |-> None],
    [name |-> "search", steps |-> << failedStep("visit", "step failed") >>, failedAt |-> Some(0)],
    [name |-> "checkout", steps |-> << okStep("visit"), failedStep("click", "step failed") >>, failedAt |-> Some(1)],
    [name |-> "signup", steps |-> << okStep("visit"), failedStep("type", "") >>, failedAt |-> Some(1)],
    runFlow(hoverFlows[1], {1}) }

\* page contents of every kind together: slow, with violations, without head
MixedContents ==
  { [meta |-> GoodMeta, lhr |-> None, axe |-> None],
    [meta |-> GoodMeta, lhr |-> Some(SlowLhr), axe |-> Some([violations |-> Pa11yViolations])],
    [meta |-> [GoodMeta EXCEPT !.title = Some(Str(14))],
     lhr |-> lhrOf([key \in {PerfKeys[1], PerfKeys[2], PerfKeys[3]} |-> audit(key, Some(4001))]),
     axe |-> Some([violations |-> << [Pa11yViolations[1] EXCEPT !.impact = "critical"],
                                     [Pa11yViolations[1] EXCEPT !.id = "color-contrast", !.impact = "minor"] >>])],
    [meta |-> [title |-> None, description |-> Some(Str(181)), h1 |-> None], lhr |-> None, axe |-> None] }

prioritizeArgs(pageLists, journeyLists) ==
  { [fn |-> "prioritize", pages |-> ps, journeys |-> js, out |-> None] : ps \in pageLists, js \in journeyLists }

\* prioritize is applied to the arguments
EvalPrioritize ==
  /\ eval.fn = "prioritize"
  /\ ~IsDef(eval.out)
  /\ eval' = [eval EXCEPT !.out = Some(prioritize(eval.pages, eval.journeys))]
  /\ UNCHANGED << jobs, pc, loc, log, calls, faults, index, snap, ops >>

InitEval(args) ==
  /\ jobs = << >> /\ pc = << >> /\ loc = << >> /\ log = << >> /\ calls = << >>
  /\ faults = << >> /\ index = EmptyIndex /\ snap = << >> /\ ops = << >>
  /\ eval \in args

NextPrioritize == EvalPrioritize

\* prioritize on pages that differ in their Lighthouse audits
SpecPerf == InitEval(prioritizeArgs(PageLists(PerfContents, MaxPages), {<< >>})) /\ [][NextPrioritize]_vars

\* prioritize on pages that differ in title, h1 and description
SpecSeo == InitEval(prioritizeArgs(PageLists(SeoContents, MaxPages), {<< >>})) /\ [][NextPrioritize]_vars

\* prioritize on pages that share titles
SpecTitles == InitEval(prioritizeArgs(PageLists(TitleContents, MaxTitlePages), {<< >>})) /\ [][NextPrioritize]_vars

\* prioritize on journeys
SpecFlow ==
  InitEval(prioritizeArgs(PageLists({[meta |-> GoodMeta, lhr |-> None, axe |-> None]}, 1),
                          SeqsUpTo(JourneyValues, MaxJourneys)))
  /\ [][NextPrioritize]_vars

\* prioritize on pages and journeys of every kind
SpecPrio ==
  InitEval(prioritizeArgs(PageLists(MixedContents, MaxPages), SeqsUpTo(JourneyValues, MaxJourneys)))
  /\ [][NextPrioritize]_vars

\* prioritize has returned (it did not throw)
Returned == IsDef(eval.out) /\ eval.out[1].ok

returnedIssues == eval.out[1].value

\* C13: every issue prioritize returns, of every category, has
\* score = severity * impact - effort.
C13_ScoreFormula ==
  Returned => \A k \in 1..Len(returnedIssues) :
    returnedIssues[k].score = returnedIssues[k].severity * returnedIssues[k].impact - returnedIssues[k].effort

\* C13's case: issues of all four categories were returned
C13_Witness ==
  /\ Returned
  /\ \A t \in {"perf", "a11y", "seo", "flow"} : \E k \in 1..Len(returnedIssues) : returnedIssues[k].type = t

\* the place of an issue's category in the order of generation
categoryRank(i) ==
  CASE i.type = "perf" -> 1
    [] i.type = "a11y" -> 2
    [] i.type = "seo" /\ i.title # << "Duplicate title across pages" >> -> 3
    [] i.type = "seo" -> 4
    [] i.type = "flow" -> 5

\* C14: prioritize returns its issues by non-increasing score, and issues
\* of equal score in the order of their generation: performance issues page
\* by page, then accessibility, then per-page SEO, then duplicate-title,
\* then journey issues.
C14_SortedStable ==
  Returned =>
    LET s == returnedIssues
    IN  /\ \A i, j \in 1..Len(s) : i < j =>
             /\ s[i].score >= s[j].score
             /\ s[i].score = s[j].score => s[i].id < s[j].id
        /\ { s[k].id : k \in 1..Len(s) } = 1..Len(s)
        /\ \A i, j \in 1..Len(s) : s[i].id < s[j].id =>
             /\ categoryRank(s[i]) <= categoryRank(s[j])
             /\ categoryRank(s[i]) = categoryRank(s[j]) /\ categoryRank(s[i]) <= 3 =>
                  s[i].pageUrl[1][2] <= s[j].pageUrl[1][2]

\* C14's case: issues with equal and with different scores were returned
C14_Witness ==
  /\ Returned
  /\ \E i, j \in 1..Len(returnedIssues) :
       i < j /\ returnedIssues[i].score = returnedIssues[j].score /\ returnedIssues[i].type # returnedIssues[j].type
  /\ \E i, j \in 1..Len(returnedIssues) : returnedIssues[i].score > returnedIssues[j].score

\* the numericValue of a page's audit, undefined when the page has no lhr or no such audit
auditValue(p, key) ==
  IF IsDef(p.lhr) /\ key \in DOMAIN p.lhr[1].audits THEN p.lhr[1].audits[key].numericValue ELSE None

\* the severity the performance rule gives a metric value; 0 when it gives none
ruleSeverity(key, v) ==
  IF ~IsDef(v) THEN 0
  ELSE CASE key = "largest-contentful-paint" -> IF v[1] > 4000 THEN 5 ELSE IF v[1] > 2500 THEN 4 ELSE 0
         [] key = "interactive" -> IF v[1] > 400 THEN 4 ELSE IF v[1] > 200 THEN 3 ELSE 0
         [] key = "cumulative-layout-shift" -> IF v[1] > 250 THEN 4 ELSE IF v[1] > 100 THEN 3 ELSE 0

ruleImpact(key) ==
  CASE key = "largest-contentful-paint" -> 5 [] key = "interactive" -> 4 [] key = "cumulative-layout-shift" -> 3

perfIssuesFor(url, key) ==
  { k \in 1..Len(returnedIssues) :
      /\ returnedIssues[k].type = "perf"
      /\ returnedIssues[k].pageUrl = Some(url)
      /\ returnedIssues[k].metric[1].name = key }

\* C15: for each page and each of the three metrics a performance issue is
\* emitted iff the metric's severity is >= 3 (load-delay > 2500 -> 4,
\* > 4000 -> 5; interaction-delay > 200 -> 3, > 400 -> 4; layout-shift
\* > 0.1 -> 3, > 0.25 -> 4), with impact 5/4/3 and effort 2; a value equal
\* to a threshold stays below it, an absent or null metric emits nothing,
\* and a page with load-delay 4200 alone has exactly one performance issue,
\* of severity 5, impact 5, effort 2, score 23.
C15_PerfRule ==
  Returned =>
    \A p \in 1..Len(eval.pages) :
      /\ \A key \in {PerfKeys[1], PerfKeys[2], PerfKeys[3]} :
           LET sev == ruleSeverity(key, auditValue(eval.pages[p], key))
               found == perfIssuesFor(eval.pages[p].url, key)
           IN  IF sev >= 3
               THEN /\ Cardinality(found) = 1
                    /\ \A k \in found :
                         /\ returnedIssues[k].severity = sev
                         /\ returnedIssues[k].impact = ruleImpact(key)
                         /\ returnedIssues[k].effort = 2
               ELSE found = {}
      /\ eval.pages[p].lhr = lhrOf("largest-contentful-paint" :> audit("largest-contentful-paint", Some(4200))) =>
           LET found == { k \in 1..Len(returnedIssues) :
                            returnedIssues[k].type = "perf" /\ returnedIssues[k].pageUrl = Some(eval.pages[p].url) }
           IN  /\ Cardinality(found) = 1
               /\ \A k \in found :
                    /\ returnedIssues[k].severity = 5 /\ returnedIssues[k].impact = 5
                    /\ returnedIssues[k].effort = 2 /\ returnedIssues[k].score = 23

\* C15's case: prioritize returned for a page with load-delay 4200 and a
\* page whose interaction-delay equals the threshold 200
C15_Witness ==
  /\ Returned
  /\ \E p, q \in 1..Len(eval.pages) :
       /\ auditValue(eval.pages[p], "largest-contentful-paint") = Some(4200)
       /\ auditValue(eval.pages[q], "interactive") = Some(200)

\* the length of an optional string without its leading and trailing blanks
trimmedLength(o) ==
  IF ~IsDef(o) THEN 0
  ELSE LET inked == {i \in 1..Len(o[1]) : o[1][i] # " "}
       IN  IF inked = {} THEN 0 ELSE SetMax(inked) - SetMin(inked) + 1

\* the per-page SEO issues the rule asks for: title of the issue and severity
ruleSeoIssues(p) ==
  LET tl == trimmedLength(p.meta.title)
      hl == trimmedLength(p.meta.h1)
      dl == trimmedLength(p.meta.description)
  IN  (IF tl = 0 THEN {<< "Missing <title>", 4 >>} ELSE {})
      \cup (IF tl > 0 /\ tl < 15 THEN {<< "Short title", 3 >>} ELSE {})
      \cup (IF tl > 65 THEN {<< "Long title", 3 >>} ELSE {})
      \cup (IF hl = 0 THEN {<< "Missing H1", 3 >>} ELSE {})
      \cup (IF dl = 0 THEN {<< "Missing meta description", 3 >>} ELSE {})
      \cup (IF dl > 180 THEN {<< "Long meta description", 2 >>} ELSE {})

pageSeoIssues(url) ==
  { k \in 1..Len(returnedIssues) :
      /\ returnedIssues[k].type = "seo"
      /\ returnedIssues[k].pageUrl = Some(url)
      /\ returnedIssues[k].title # << "Duplicate title across pages" >> }

\* C16: for each page independently, prioritize emits a severity-4 issue iff
\* the trimmed title is empty, a severity-3 issue iff the title is non-empty
\* with length < 15 or > 65, a severity-3 issue iff the h1 is empty, a
\* severity-3 issue iff the description is empty and a severity-2 issue iff
\* the description is longer than 180; a single page with a 20-character
\* title, an h1, a 140-character description and load-delay 1800 has none.
C16_SeoRule ==
  Returned =>
    /\ \A p \in 1..Len(eval.pages) :
         LET found == pageSeoIssues(eval.pages[p].url)
             rule == ruleSeoIssues(eval.pages[p])
         IN  /\ { << returnedIssues[k].title[1], returnedIssues[k].severity >> : k \in found } = rule
             /\ Cardinality(found) = Cardinality(rule)
    /\ eval.pages = << pageAt(1, [meta |-> GoodMeta, lhr |-> FastLhr, axe |-> None]) >> =>
         returnedIssues = << >>

\* C16's case: prioritize returned for a page with a blank title and a
\* page with a 181-character description
C16_Witness ==
  /\ Returned
  /\ \E p, q \in 1..Len(eval.pages) :
       /\ eval.pages[p].meta.title = Some(Chars(3, " "))
       /\ eval.pages[q].meta.description = Some(Str(181))

\* an optional string without its leading and trailing blanks
trimmedText(o) ==
  IF ~IsDef(o) THEN << >>
  ELSE LET inked == {i \in 1..Len(o[1]) : o[1][i] # " "}
       IN  IF inked = {} THEN << >> ELSE [i \in 1..(SetMax(inked) - SetMin(inked) + 1) |-> o[1][SetMin(inked) + i - 1]]

\* the pages of the input that carry the title of page p
sameTitle(p) ==
  { q \in 1..Len(eval.pages) : trimmedText(eval.pages[q].meta.title) = trimmedText(eval.pages[p].meta.title) }

duplicateIssues(url) ==
  { k \in 1..Len(returnedIssues) :
      /\ returnedIssues[k].type = "seo"
      /\ returnedIssues[k].title = << "Duplicate title across pages" >>
      /\ returnedIssues[k].pageUrl = Some(url) }

\* C17: for every non-empty trimmed title shared by n >= 2 pages,
\* prioritize emits exactly n duplicate-title issues, one per affected
\* page, each with severity 3, impact 3, effort 2, score 7; a title on one
\* page only and an empty title give no duplicate-title issue.
C17_DuplicateTitleRule ==
  Returned =>
    /\ \A p \in 1..Len(eval.pages) :
         LET found == duplicateIssues(eval.pages[p].url)
         IN  IF trimmedText(eval.pages[p].meta.title) # << >> /\ Cardinality(sameTitle(p)) >= 2
             THEN /\ Cardinality(found) = 1
                  /\ \A k \in found :
                       /\ returnedIssues[k].severity = 3 /\ returnedIssues[k].impact = 3
                       /\ returnedIssues[k].effort = 2 /\ returnedIssues[k].score = 7
             ELSE found = {}
    /\ \A k \in 1..Len(returnedIssues) :
         returnedIssues[k].title = << "Duplicate title across pages" >> =>
           \E p \in 1..Len(eval.pages) : returnedIssues[k].pageUrl = Some(eval.pages[p].url)

\* C17's case: two pages share a title (one has it with a leading blank), a
\* third page has a title of its own
C17_Witness ==
  /\ Returned
  /\ \E p, q, r \in 1..Len(eval.pages) :
       /\ eval.pages[p].meta.title = Some(Str(20))
       /\ eval.pages[q].meta.title = Some(<< " " >> \o Str(20))
       /\ eval.pages[r].meta.title = Some(Chars(20, "b"))

\* the journeys of the input that failed, in input order
failedJourneys ==
  LET RECURSIVE collect(_)
      collect(k) == IF k > Len(eval.journeys) THEN << >>
                    ELSE (IF IsDef(eval.journeys[k].failedAt) THEN << eval.journeys[k] >> ELSE << >>)
                         \o collect(k + 1)
  IN  collect(1)

\* the journey issues of a result, in the order of their generation
flowIssuesOf(issues) ==
  LET ids == { issues[k].id : k \in { m \in 1..Len(issues) : issues[m].type = "flow" } }
      RECURSIVE collect(_)
      collect(S) == IF S = {} THEN << >>
                    ELSE LET least == SetMin(S)
                         IN  << CHOOSE i \in { issues[k] : k \in 1..Len(issues) } : i.id = least >>
                             \o collect(S \ {least})
  IN  collect(ids)

\* C18: prioritize emits exactly one issue for each journey whose failedAt
\* is present and none for a journey without failedAt; each such issue has
\* severity 5, impact 5, effort 3, score 22 and no pageUrl, and its evidence
\* names the failing step (by its index or by its ordinal).
C18_JourneyRule ==
  IsDef(eval.out) =>
    /\ eval.out[1].ok
    /\ LET found == flowIssuesOf(eval.out[1].value)
       IN  /\ Len(found) = Len(failedJourneys)
           /\ \A m \in 1..Len(found) :
                /\ found[m].title = << "Journey failure: ", failedJourneys[m].name >>
                /\ found[m].severity = 5 /\ found[m].impact = 5
                /\ found[m].effort = 3 /\ found[m].score = 22
                /\ found[m].pageUrl = None
                /\ found[m].evidence[2] \in {failedJourneys[m].failedAt[1], failedJourneys[m].failedAt[1] + 1}

\* a field of an issue and another value for it
Changes ==
  ({"type"} \X {"a11y", "perf", "seo", "flow"})
  \cup ({"pageUrl"} \X PageUrlValues)
  \cup ({"title"} \X DigestTitles)
  \cup ({"ruleId"} \X RuleIdValues)
  \cup ({"wcag"} \X WcagValues)
  \cup ({"metric"} \X MetricValues)
  \cup ({"severity"} \X {1})
  \cup ({"impact"} \X {3})
  \cup ({"effort"} \X {1})
  \cup ({"score"} \X {2})
  \cup ({"id"} \X {2})
  \cup ({"evidence"} \X {<< "e", "2" >>})
  \cup ({"fixSteps"} \X {<< >>})

changed(i, c) == [i EXCEPT ![c[1]] = c[2]]

\* a base issue paired with itself after up to two changes
digestArgs ==
  { [fn |-> "issueDigest", a |-> a, b |-> changed(changed(a, c1), c2), out |-> None] :
      a \in BaseIssues, c1 \in Changes, c2 \in Changes }

EvalDigest ==
  /\ eval.fn = "issueDigest"
  /\ ~IsDef(eval.out)
  /\ eval' = [eval EXCEPT !.out = Some([a |-> issueDigest(eval.a), b |-> issueDigest(eval.b)])]
  /\ UNCHANGED << jobs, pc, loc, log, calls, faults, index, snap, ops >>

NextDigest == EvalDigest

\* issueDigest on pairs of issues
SpecDigest == InitEval(digestArgs) /\ [][NextDigest]_vars

Digested == IsDef(eval.out)

KeyFields == {"type", "pageUrl", "title", "ruleId", "wcag", "metric"}

\* a and b agree on every field outside F that is not a scoring field
agreeExcept(a, b, F) == \A f \in KeyFields \ F : a[f] = b[f]

normalizedPage(i) == normUrl(IF IsDef(i.pageUrl) THEN i.pageUrl[1] ELSE << >>)

\* the field that holds the discriminator of an issue of the given type
discriminatorField(type) ==
  CASE type = "a11y" -> "ruleId" [] type = "perf" -> "metric" [] OTHER -> "title"

\* ruleId for a11y, metric name for perf, lowercased first 48 characters
\* of the title for seo and flow
discriminator(i) ==
  CASE i.type = "a11y" -> (IF IsDef(i.ruleId) THEN i.ruleId[1] ELSE << >>)
    [] i.type = "perf" -> (IF IsDef(i.metric) THEN i.metric[1].name ELSE << >>)
    [] OTHER -> toLowerCase(SubSeq(i.title, 1, IF Len(i.title) < 48 THEN Len(i.title) ELSE 48))

C20_TripleOnly ==
  Digested =>
    ((/\ eval.a.type = eval.b.type
      /\ normalizedPage(eval.a) = normalizedPage(eval.b)
      /\ discriminator(eval.a) = discriminator(eval.b))
     => eval.out[1].a = eval.out[1].b)

\* --- normUrl on its own ------------------------------------------------

\* strings given to normUrl: the page urls above, a url whose query follows
\* the host directly, the bare scheme, and strings without a scheme
NormInputs ==
  { IF IsDef(o) THEN o[1] ELSE << >> : o \in PageUrlValues }
  \cup { Scheme \o Host \o << "?", "x" >>,
         Scheme \o Host \o << "/", "p", "?", "y" >>,
         Scheme,
         << "/", "p", "?", "y" >>,
         << "s", ".", "t", "/", "p", "#", "f" >> }

\* normUrl applied to u once and twice, and to v once
EvalNormUrl ==
  /\ eval.fn = "normUrl"
  /\ ~IsDef(eval.out)
  /\ eval' = [eval EXCEPT !.out = Some([once |-> normUrl(eval.u),
                                        twice |-> normUrl(normUrl(eval.u)),
                                        other |-> normUrl(eval.v)])]
  /\ UNCHANGED << jobs, pc, loc, log, calls, faults, index, snap, ops >>

NextNormUrl == EvalNormUrl

SpecNormUrl ==
  InitEval({ [fn |-> "normUrl", u |-> u, v |-> v, out |-> None] : u \in NormInputs, v \in NormInputs })
  /\ [][NextNormUrl]_vars

\* the part of a string before its query and fragment
beforeQueryAndFragment(u) ==
  SubSeq(u, 1, IF \E k \in 1..Len(u) : u[k] \in {"?", "#"}
               THEN SetMin({ k \in 1..Len(u) : u[k] \in {"?", "#"} }) - 1
               ELSE Len(u))

\* C21: normUrl(normUrl(u)) = normUrl(u) for every string u, parseable as a
\* URL or not; two URLs that differ only in their query string or their
\* fragment have the same normUrl.
C21_NormUrlIdempotent ==
  IsDef(eval.out) =>
    /\ eval.out[1].twice = eval.out[1].once
    /\ (/\ parsesAsUrl(eval.u) /\ parsesAsUrl(eval.v)
        /\ beforeQueryAndFragment(eval.u) = beforeQueryAndFragment(eval.v))
       => eval.out[1].once = eval.out[1].other

\* normUrl was applied to two different URLs that differ only in query and
\* fragment, one of them with both, and gave the same value, itself a fixed point
C21_Witness ==
  /\ IsDef(eval.out)
  /\ parsesAsUrl(eval.u) /\ parsesAsUrl(eval.v)
  /\ eval.u # eval.v
  /\ beforeQueryAndFragment(eval.u) = beforeQueryAndFragment(eval.v)
  /\ \E k \in 1..Len(eval.u) : eval.u[k] = "?"
  /\ \E k \in 1..Len(eval.u) : eval.u[k] = "#"
  /\ eval.out[1].once = eval.out[1].other
  /\ eval.out[1].twice = eval.out[1].once
  /\ eval.out[1].once # eval.u

\* --- the run history and the triage map ---------------------------------

Diffed == eval # << >>

toSet(seq) == { seq[k] : k \in 1..Len(seq) }

\* the digests recorded under a run id in an index (empty when there is no such run)
digestsOfRun(idx, id) == UNION { toSet(idx.runs[k].digests) : k \in { m \in 1..Len(idx.runs) : idx.runs[m].id = id } }

knownRun(idx, id) == \E k \in 1..Len(idx.runs) : idx.runs[k].id = id

\* C22: for two recorded runs A and B, diffRuns gives added = digests(B) \
\* digests(A), removed = digests(A) \ digests(B) and unchanged = digests(A)
\* \cap digests(B), each digest once; so added and unchanged make up
\* digests(B), removed and unchanged make up digests(A), and the three are
\* pairwise disjoint.
C22_DiffComplete ==
  (Diffed /\ knownRun(eval.idx, eval.a) /\ knownRun(eval.idx, eval.b)) =>
    LET A == digestsOfRun(eval.idx, eval.a)
        B == digestsOfRun(eval.idx, eval.b)
        added == toSet(eval.out.added)
        removed == toSet(eval.out.removed)
        unchanged == toSet(eval.out.unchanged)
    IN  /\ added = B \ A /\ removed = A \ B /\ unchanged = A \cap B
        /\ added \cup unchanged = B /\ removed \cup unchanged = A
        /\ added \cap removed = {} /\ added \cap unchanged = {} /\ removed \cap unchanged = {}
        /\ Len(eval.out.added) = Cardinality(added)
        /\ Len(eval.out.removed) = Cardinality(removed)
        /\ Len(eval.out.unchanged) = Cardinality(unchanged)

\* run A has two digests, run B has one of them and another one: the diff
\* has one added, one removed and one unchanged digest
C22_Witness ==
  /\ Diffed /\ knownRun(eval.idx, eval.a) /\ knownRun(eval.idx, eval.b)
  /\ Cardinality(digestsOfRun(eval.idx, eval.a)) = 2
  /\ Cardinality(digestsOfRun(eval.idx, eval.b)) = 2
  /\ Len(eval.out.added) = 1 /\ Len(eval.out.removed) = 1 /\ Len(eval.out.unchanged) = 1

\* C23: when one of the two run ids is not in the index, diffRuns answers
\* with empty added, removed and unchanged lists (and the run it could
\* find); answering a diff never changes the index.
C23_DiffLenient ==
  /\ []((Diffed /\ ~(knownRun(eval.idx, eval.a) /\ knownRun(eval.idx, eval.b))) =>
          /\ eval.out.added = << >> /\ eval.out.removed = << >> /\ eval.out.unchanged = << >>
          /\ IsDef(eval.out.a) = knownRun(eval.idx, eval.a)
          /\ IsDef(eval.out.b) = knownRun(eval.idx, eval.b))
  /\ [][eval' # eval => index' = index]_vars

\* a recorded run with digests was diffed against an unknown run id
C23_Witness ==
  /\ Diffed
  /\ knownRun(eval.idx, eval.a) /\ ~knownRun(eval.idx, eval.b)
  /\ digestsOfRun(eval.idx, eval.a) # {}
  /\ eval.out.added = << >> /\ eval.out.removed = << >> /\ eval.out.unchanged = << >>
  /\ IsDef(eval.out.a)

\* the write k writes the index in this step
Writes(k) == ops[k].phase = "write" /\ ops'[k].phase = "done"

\* the runs of an index but the run of the id, in their order
otherRuns(idx, id) == SelectSeq(idx.runs, LAMBDA r : r.id # id)

\* the triage record of a digest as a query by digest gives it
triageRecord(idx, d) ==
  IF d \in DOMAIN idx.triage THEN idx.triage[d]
  ELSE [state |-> << >>, owner |-> << >>, estimateHours |-> << >>, notes |-> << >>]

\* the triage records of the digests other than d are the same in both indexes
otherTriageKept(before, afterwards, d) ==
  /\ DOMAIN afterwards.triage \ {d} = DOMAIN before.triage \ {d}
  /\ \A x \in DOMAIN before.triage \ {d} : afterwards.triage[x] = before.triage[x]

\* C24: the run index never holds two RunMeta of one job id and is ordered
\* newest first (jobs are created in the order of their ids); a recordRun
\* call puts the run of its job in, once, and leaves the entries of all
\* other runs as they were.
C24_OneRunPerJob ==
  /\ [](\A k, m \in 1..Len(index.runs) : k < m => index.runs[k].id > index.runs[m].id)
  /\ [][\A k \in DOMAIN ops :
          (Writes(k) /\ ops[k].req.kind = "recordRun") =>
            /\ otherRuns(index', ops[k].req.job.id) = otherRuns(index, ops[k].req.job.id)
            /\ Cardinality({ m \in 1..Len(index'.runs) : index'.runs[m].id = ops[k].req.job.id }) = 1]_vars

\* C25: setTriageMeta(d, partial) overwrites exactly the fields of partial
\* in d's record; setTriage(d, state) sets or clears the state of d and
\* keeps owner, estimateHours and notes; neither changes the record of
\* another digest or the run list.
C25_TriageMerge ==
  [][\A k \in DOMAIN ops :
       (Writes(k) /\ ops[k].req.kind \in {"setTriage", "setTriageMeta"}) =>
         LET d == ops[k].req.digest
             old == triageRecord(index, d)
             new == triageRecord(index', d)
             given == IF ops[k].req.kind = "setTriage" THEN [state |-> ops[k].req.state]
                      ELSE ops[k].req.partial
         IN  /\ \A f \in DOMAIN new : new[f] = IF f \in DOMAIN given THEN given[f] ELSE old[f]
             /\ otherTriageKept(index, index', d)
             /\ index'.runs = index.runs]_vars

\* C26: recordRun never changes the triage map, so the triage state set for
\* a digest is what a query by digest gives after any recordRun, of a run
\* with the digest or without it.
C26_TriageIndependent ==
  [][\A k \in DOMAIN ops :
       (Writes(k) /\ ops[k].req.kind = "recordRun") => index'.triage = index.triage]_vars

\* an optional string that is present and not empty
hasText(o) == o # << >> /\ o[1] # << >>

\* a page without title, h1 and description
blankPage(p) == ~hasText(p.meta.title) /\ ~hasText(p.meta.h1) /\ ~hasText(p.meta.description)

metasOf(pages) == [k \in 1..Len(pages) |-> pages[k].meta]

journeyWellFormed(j) ==
  IF j.failedAt # << >>
  THEN /\ j.failedAt[1] < Len(j.steps)
       /\ j.failedAt[1] + 1 = Len(j.steps)
       /\ \A k \in 1..Len(j.steps) : j.steps[k].ok = (k # j.failedAt[1] + 1)
  ELSE \A k \in 1..Len(j.steps) : j.steps[k].ok

\* C29: every journey the runner returns, for any flow definition, has its
\* failing step recorded at index failedAt (the last step and the only one
\* not ok), or all its steps ok when failedAt is undefined; so the
\* synthesis stage never fails a job because of a journey.
C29_JourneysWellFormed ==
  \A id \in DOMAIN loc :
    /\ \A k \in 1..Len(loc[id].journeys) : journeyWellFormed(loc[id].journeys[k])
    /\ ~(jobs[id].status = "error" /\ jobs[id].progress = 85)

\* C28: in every state of every job, status done, progress 100, stage
\* 'done' and attached outputs (pages, issues, journeys, report) come
\* together or not at all; a queued, running or failed job has no outputs;
\* a failed job has stage 'error' and a non-empty error message.
C28_JobRecordConsistent ==
  \A id \in DOMAIN jobs :
    LET j == jobs[id]
    IN  /\ j.status \in {"queued", "running", "done", "error"}
        /\ (j.status = "done") = (j.progress = 100)
        /\ (j.status = "done") = (j.stage = "done")
        /\ (j.status = "done") = (j.outputs # << >>)
        /\ j.outputs # << >> =>
             {"pages", "issues", "journeys", "artifacts"} \subseteq DOMAIN j.outputs[1]
        /\ j.status = "error" =>
             j.stage = "error" /\ j.error \notin {"", "(undefined)"}

\* a done job with its outputs, after its run was recorded
C28_Witness ==
  \E id \in DOMAIN jobs :
    /\ pc[id] = "end"
    /\ jobs[id].status = "done" /\ jobs[id].progress = 100 /\ jobs[id].stage = "done"
    /\ jobs[id].outputs # << >>
    /\ jobs[id].outputs[1].issues # << >>

\* ---------------------------------------------------------------------
\* crawlHttp (agents/crawl.http.ts).  A URL is << origin, path, hash >>; a
\* site maps the URLs that can be fetched to their title and their links,
\* and the fetch of any other URL fails (fetchHtml returns null).
\* ---------------------------------------------------------------------

CrawlSites ==
  LET u(path, frag) == << "https://shop.test", path, frag >>
      cdn == << "https://cdn.test", "/", "" >>
      page(links) == [title |-> Some(Str(4)), links |-> links]
  IN  { \* a chain / -> /a -> /b -> /c, the last one not fetchable
        (u("/", "") :> page(<< u("/a", "") >>)) @@ (u("/a", "") :> page(<< u("/b", "") >>))
          @@ (u("/b", "") :> page(<< u("/c", "") >>)),
        \* cycles, links with fragments, a link to another origin, a page not fetchable
        (u("/", "") :> page(<< u("/a", "#top"), cdn, u("/b", ""), u("/a", ""), u("/", "#main") >>))
          @@ (u("/a", "") :> page(<< u("/", ""), u("/b", "#x"), u("/c", "") >>))
          @@ (u("/c", "") :> page(<< u("/a", ""), cdn >>))
          @@ (cdn :> page(<< u("/d", "") >>)),
        \* the start page itself is not fetchable
        (u("/x", "") :> page(<< >>)) }

\* a loop that follows links at any depth
crawlIterationNoDepth(c) ==
  LET head == c.q[1]
      rest == Tail(c.q)
      url == head.url
      \* line 100: the html, or null
      html == IF url \in DOMAIN c.site THEN Some(c.site[url]) ELSE None
      visited == c.visited \cup {url}
  IN  CHOOSE result \in
        { LET fresh == SelectSeq(links, LAMBDA l : l \notin visited)
              more == [k \in 1..Len(fresh) |-> [url |-> fresh[k], depth |-> head.depth + 1]]
              next == IF url \in c.visited THEN [c EXCEPT !.q = rest]
                      ELSE IF url[1] # c.startUrl[1] THEN [c EXCEPT !.q = rest, !.visited = visited]
                      ELSE [c EXCEPT !.q = rest \o more, !.visited = visited,
                                     !.pages = Append(@, [crawledPage(url, IF IsDef(html) THEN html[1].title ELSE None,
                                                                      None, None)
                                                            EXCEPT !.links = listed])]
          IN  [next EXCEPT !.done = next.q = << >> \/ (next.pages # c.pages /\ Len(next.pages) >= c.maxPages)] :
            \* lines 38-52 and 112-115: the hrefs once each, then without hash and of the base's origin
            links \in { SelectSeq([k \in 1..Len(raw) |-> << raw[k][1], raw[k][2], "" >>],
                                  LAMBDA l : l[1] = c.startUrl[1]) :
                          raw \in { uniq(IF IsDef(html) THEN html[1].links ELSE << >>) } },
            \* line 118: Array.from(new Set(links))
            listed \in { uniq(SelectSeq([k \in 1..Len(raw) |-> << raw[k][1], raw[k][2], "" >>],
                                        LAMBDA l : l[1] = c.startUrl[1])) :
                           raw \in { uniq(IF IsDef(html) THEN html[1].links ELSE << >>) } } } : TRUE

\* lines 92-126: one turn of the while loop; done when the loop is left
\* (by the break of line 125 or on an empty queue)
crawlIteration(c) ==
  LET head == c.q[1]
      rest == Tail(c.q)
      url == head.url
      \* line 100: the html, or null
      html == IF url \in DOMAIN c.site THEN Some(c.site[url]) ELSE None
      visited == c.visited \cup {url}
  IN  CHOOSE result \in
        { LET fresh == SelectSeq(links, LAMBDA l : l \notin visited)
              more == IF head.depth < c.maxDepth
                    THEN [k \in 1..Len(fresh) |-> [url |-> fresh[k], depth |-> head.depth + 1]]
                    ELSE << >>
              next == IF url \in c.visited THEN [c EXCEPT !.q = rest]
                      ELSE IF url[1] # c.startUrl[1] THEN [c EXCEPT !.q = rest, !.visited = visited]
                      ELSE [c EXCEPT !.q = rest \o more, !.visited = visited,
                                     !.pages = Append(@, [crawledPage(url, IF IsDef(html) THEN html[1].title ELSE None,
                                                                      None, None)
                                                            EXCEPT !.links = listed])]
          IN  [next EXCEPT !.done = next.q = << >> \/ (next.pages # c.pages /\ Len(next.pages) >= c.maxPages)] :
            \* lines 38-52 and 112-115: the hrefs once each, then without hash and of the base's origin
            links \in { SelectSeq([k \in 1..Len(raw) |-> << raw[k][1], raw[k][2], "" >>],
                                  LAMBDA l : l[1] = c.startUrl[1]) :
                          raw \in { uniq(IF IsDef(html) THEN html[1].links ELSE << >>) } },
            \* line 118: Array.from(new Set(links))
            listed \in { uniq(SelectSeq([k \in 1..Len(raw) |-> << raw[k][1], raw[k][2], "" >>],
                                        LAMBDA l : l[1] = c.startUrl[1])) :
                           raw \in { uniq(IF IsDef(html) THEN html[1].links ELSE << >>) } } } : TRUE

\* lines 85-90: crawlHttp(startUrl, maxDepth, maxPages) before its loop
crawlArgs ==
  { [fn |-> "crawlHttp", site |-> site, startUrl |-> start, maxDepth |-> d, maxPages |-> n,
     q |-> << [url |-> << start[1], start[2], "" >>, depth |-> 0] >>,
     visited |-> {}, pages |-> << >>, done |-> FALSE] :
      site \in CrawlSites, d \in 0..MaxCrawlDepth, n \in 1..MaxCrawlPages,
      start \in { << "https://shop.test", "/", "" >>, << "https://shop.test", "/", "#intro" >> } }

CrawlStep ==
  /\ eval.fn = "crawlHttp"
  /\ ~eval.done
  /\ eval' = crawlIteration(eval)
  /\ UNCHANGED << jobs, pc, loc, log, calls, faults, index, snap, ops >>

NextCrawl == CrawlStep

\* crawlHttp, every turn of whose loop is eventually taken
FairCrawl == InitEval(crawlArgs) /\ [][NextCrawl]_vars /\ WF_vars(NextCrawl)

\* the URLs within n link hops of the start URL (links taken without their hash)
RECURSIVE withinHops(_)
withinHops(n) ==
  IF n = 0 THEN { << eval.startUrl[1], eval.startUrl[2], "" >> }
  ELSE LET near == withinHops(n - 1)
       IN  near \cup { << l[1], l[2], "" >> :
                         l \in UNION { { eval.site[v].links[k] : k \in 1..Len(eval.site[v].links) } :
                                         v \in near \cap DOMAIN eval.site } }

\* C30: crawlHttp terminates, and what it returns is at most maxPages
\* pages with pairwise distinct URLs of the start URL's origin, each within
\* maxDepth link hops of the start URL, the first one the start URL without
\* its fragment; a page whose fetch failed is among them with no links and
\* no meta.
C30_CrawlBounded ==
  /\ <>(eval.done)
  /\ [](eval.done =>
          LET pages == eval.pages
          IN  /\ Len(pages) >= 1 /\ Len(pages) <= eval.maxPages
              /\ \A k, m \in 1..Len(pages) : k # m => pages[k].url # pages[m].url
              /\ \A k \in 1..Len(pages) :
                   /\ pages[k].url[1] = eval.startUrl[1]
                   /\ pages[k].url \in withinHops(eval.maxDepth)
                   /\ pages[k].url \notin DOMAIN eval.site =>
                        /\ pages[k].links = << >>
                        /\ pages[k].meta = [title |-> << >>, description |-> << >>, h1 |-> << >>]
              /\ pages[1].url = << eval.startUrl[1], eval.startUrl[2], "" >>)

\* a crawl returned as many pages as allowed, among them one whose fetch
\* failed, and left a reachable page out
C30_Witness ==
  /\ eval.done
  /\ Len(eval.pages) = eval.maxPages /\ Len(eval.pages) > 1
  /\ eval.startUrl[3] # ""
  /\ \E k \in 1..Len(eval.pages) : eval.pages[k].url \notin DOMAIN eval.site
  /\ eval.q # << >>

====
